---- MODULE Spec2Model ----
(***************************************************************************)
(* Verification model of the trading client.                               *)
(*                                                                         *)
(* Part 1: the transport client (DerivWSClient and MessageRouter of        *)
(* infrastructure/deriv/deriv_ws_client.py).  One action is one run of a   *)
(* coroutine between two suspension points of the asyncio scheduler.       *)
(* Times are counted in tenths of a second.                                *)
(*                                                                         *)
(* Part 2: the trade worker and the intent queue of app/engine.py          *)
(* (run_engine.trade_worker, on_candle, run_timer).                        *)
(***************************************************************************)
EXTENDS Integers, Sequences, FiniteSets, TLC

\* ---- bounds of the model ----
MaxConn == 2        \* sockets opened by websockets.connect
MaxReq == 4         \* correlation ids handed out by _next_req_id
NumCallers == 2     \* tasks of other modules that call the client once
NumNames == 1       \* subscription names
MaxRunners == 2     \* task objects created by start()
MaxFail == 1        \* failures of websockets.connect
MaxStarts == 1      \* calls of start() with no runner task alive
MaxBackoffFails == 8 \* failures of websockets.connect in SpecReconnect
MaxMinute == 5      \* wall-clock minutes the timer model runs through
NumSymbols == 2     \* watched instruments (multi-instrument mode)
MaxScore == 2       \* signal scores are ranks 1..MaxScore, 0 is no eligible signal
MaxTicks == 5       \* ticks fed to the candle builder
MaxBucket == 3      \* time buckets the ticks fall into
MaxPrice == 3       \* tick prices are 1..MaxPrice
MaxChecks == 2      \* calls of RiskFirewall.check in a run
MaxDrawdownPct == 10        \* max_drawdown_total, in percent
MaxLossDailyPct == 5        \* max_loss_daily, in percent
MaxTradesDaily == 2         \* max_trades_daily
MaxConsecutiveLosses == 2   \* max_consecutive_losses
CooldownMinutes == 30       \* consecutive_loss_cooldown_minutes
MaxBars == 4        \* closed candles fed to the indicator engine
EmaFastPeriod == 3  \* ema_fast_period
EmaSlowPeriod == 7  \* ema_slow_period
AtrPeriod == 3      \* atr_period
RsiPeriod == 3      \* rsi_period
MaxIntents == 4     \* trade intents created by on_candle / run_timer
HtfBlocks == 2      \* timeframe_1m_blocks: base candles per synthetic candle
MaxHtfBars == 7     \* closed base candles fed to the higher-timeframe trend

\* ---- program constants (tenths of a second, percent) ----
RiskBase == 5       \* risk_per_trade_percent 0.005, in thousandths
RiskHigh == 7       \* risk_per_trade_percent_high_score 0.007
RiskCap == 10       \* max_risk_per_trade_percent 0.01
ScoreHigh == 75     \* score_high_threshold 0.75, in hundredths
ScoreMin == 55      \* score_min_threshold 0.55
MinAtrDiv == 1000       \* min_atr_pct = 0.001 = 1 / MinAtrDiv
MinSpreadDiv == 2000    \* min_ema_spread_pct = 0.0005 = 1 / MinSpreadDiv
LongLo == 450           \* rsi_long_zone = (45.0, 60.0), in tenths
LongHi == 600
ShortLo == 400          \* rsi_short_zone = (40.0, 55.0)
ShortHi == 550
RsiOverbought == 700    \* rsi_overbought = 70.0
RsiOversold == 300      \* rsi_oversold = 30.0
InitialBackoff == 10
MaxBackoff == 600
JitterPct == 30
QueueMaxSize == 3   \* asyncio.Queue(maxsize=3)

Socks == 1..MaxConn
Ids == 1..MaxReq
Callers == 1..NumCallers
Names == 1..NumNames
Runners == 1..MaxRunners
Intents == 1..MaxIntents
Symbols == 1..NumSymbols
Buckets == 1..MaxBucket
Prices == 1..MaxPrice

Min(a, b) == IF a <= b THEN a ELSE b

VARIABLES
  \* DerivWSClient fields
  ws,             \* self._ws: 0 is None, else the socket
  connected,      \* self._connected_evt
  stopEvt,        \* self._stop_evt
  runnerTask,     \* self._runner_task: 0 is None
  readerTask,     \* self._reader_task: 0 is None, else the socket it was made for
  hbTask,         \* self._heartbeat_task
  reqId,          \* self._req_id - 10000
  subscriptions,  \* keys of self._subscriptions, in insertion order
  subIds,         \* self._sub_ids: name -> subscription id, 0 is absent
  \* MessageRouter._futures and the futures themselves
  futMap,         \* keys of _futures
  futState,       \* id -> "none" | "pending" | "result" | "exception" | "cancelled"
  \* the runner tasks (_run_forever / _connect_and_run)
  rpc,            \* "none" | "connecting" | "authorizing" | "resub" | "running" | "sleeping" | "done"
  backoff,        \* local backoff of _run_forever
  rconn,          \* the ws of the runner's `async with websockets.connect(...) as ws`
  rreq,           \* correlation id the runner awaits
  rname,          \* name being activated by _resubscribe_all
  rtodo,          \* names left in the loop of _resubscribe_all
  rwaitR,         \* reader task handed to asyncio.wait
  rwaitH,         \* heartbeat task handed to asyncio.wait
  \* reader and heartbeat tasks, named by the socket they were created for
  reader,         \* "none" | "running" | "returned" | "raised" | "cancelled" | "over"
  rdSock,         \* socket whose recv() the reader awaits
  hb,             \* "none" | "running" | "raised" | "cancelled" | "over"
                  \* ("over": finished, and the attempt that made the task is gone)
  \* network and brokerage
  nconn,          \* sockets opened so far
  sockOpen,       \* socket -> open
  sentOn,         \* id -> socket the frame went out on, 0 if never sent
  reqKind,        \* id -> "none" | "authorize" | "request" | "subscribe" | "forget"
  reqName,        \* id -> subscription name of a subscribe request
  answer,         \* id -> "none" | "ok" | "error": what the brokerage answer
  streams,        \* subscription ids the brokerage has handed out
  failsLeft,      \* failures of websockets.connect the network still produces
  \* tasks of other modules
  cpc,            \* "idle" | "wait_conn" | "woken" | "wait_resp" | "returned" | "raised"
  cop,            \* "none" | "request" | "subscribe" | "unsubscribe"
  cname,          \* name argument of subscribe / unsubscribe
  creq,           \* correlation id of the caller's request, 0 if none
  cerr,           \* error raised to the caller
  \* history (observation only)
  everConn,       \* runner -> the current attempt reached Connected
  sleepBase,      \* runner -> backoff of the current or last sleep
  prevBase,       \* runner -> backoff of the sleep before, 0 if none
  sleepFor,       \* runner -> sleep_for of the current or last sleep
  lastDispatch,   \* last handler invocation: <<name, subscription id, socket>>
  \* run_engine: configuration, kill switch file, risk state
  dryRun,         \* config.development.dry_run
  multiplier,     \* get_effective_contract_type(config) == "multiplier"
  ksEnabled,      \* "enabled" of data/killswitch.json
  riskAllowed,    \* what rf.check answers on the risk state as it is now
  \* run_engine: the queue and the guard
  tradeQueue,     \* trade_queue: intents not yet taken, oldest first
  unfinished,     \* trade_queue._unfinished_tasks
  nIntents,       \* intents created so far
  tradeInFlight,  \* trade_in_flight
  \* trade_worker
  wpc,            \* "get" | "resolve" | "propose" | "buy" | "poll" | "raised" | "cancelled"
  intent,         \* local intent, 0 before the first get
  tradeId,        \* local trade_id, 0 is None
  \* the ledger, the brokerage and the log
  ledger,         \* trade row of an intent: "none" | "open" | "closed" | "deleted"
  sent,           \* intent -> request kinds the worker awaited for it
  contract,       \* intent -> buy returned a contract id
  outcome,        \* intent -> last log event about it
  \* run_engine, multi-instrument mode
  now,            \* the minute of the wall clock
  target,         \* the minute run_timer sleeps towards
  lastProcessed,  \* last_processed_minute, 0 is None
  curBucket,      \* symbol -> open_time of the builder's open candle, 0 is None
  lastClosed,     \* symbol -> open_time of last_closed[symbol], 0 is absent
  sigScore,       \* symbol -> score of the signal of last_closed[symbol]
                  \* after all filters, 0 without an eligible signal
  intentSym,      \* intent -> symbol the timer chose, 0 otherwise
  intentMin,      \* intent -> the minute it was chosen for, 0 otherwise
  \* CandleBuilder of symbol 1
  current,        \* _current, NoCandle is None
  ret,            \* what the last update_with_tick returned, NoCandle is None
  emitted,        \* the candles update_with_tick returned so far
  delivered,      \* the candles handed to on_candle_closed so far
  seen,           \* bucket -> ticks of the symbol observed in it
  inOrder,        \* no tick so far was of an earlier bucket than the open candle
  nTicks,         \* ticks fed so far
  callbackRaised, \* on_candle_closed raised in the last update_with_tick
  twin,           \* _current of a builder fed the same ticks whose callback
                  \* never raises
  tick,           \* the argument of the last update_with_tick:
                  \* <<symbol, bucket of its epoch, price>>
  \* RiskFirewall
  dailyStart,     \* _daily_start_equity, 0 is None
  riskSnap,       \* the snapshot of the last check
  riskOut,        \* the RiskDecision of the last check
  nChecks,        \* calls of check so far
  \* PositionSizer
  sizerCfg,       \* min_stake and max_stake, in thousandths of a unit
  sizeIn,         \* balance (thousandths) and score (hundredths) of the call
  sizeOut,        \* the SizeDecision, NoSize before the call
  \* TrendPullbackStrategy
  sigIn,          \* the candle close and the indicators of the call
  sigOut,         \* the Signal, NoSignal before the call
  \* IndicatorEngine; with n = bars, a smoothed value is kept as its
  \* numerator over the (n-1)th power of its divisor
  bars,           \* _bars
  emaFast,        \* _ema_fast, over (ema_fast_period + 1)^(n-1)
  emaSlow,        \* _ema_slow, over (ema_slow_period + 1)^(n-1)
  prevClose,      \* _prev_close, 0 is None
  atrAvg,         \* _atr, over atr_period^(n-1)
  avgGain,        \* _avg_gain, over rsi_period^(n-1)
  avgLoss,        \* _avg_loss, over rsi_period^(n-1)
  rsiOut,         \* the rsi of the Indicators returned last, num / den
  \* HigherTimeframeTrend
  htfBuffer,      \* _buffer, oldest first
  lastHtf,        \* _last_htf, NoAgg is None
  prevHtf,        \* _prev_htf, NoAgg is None
  fed,            \* every candle given to add_1m_candle so far
  alignOut,       \* arguments and result of the last is_aligned since the
                  \* last candle, NoAnswer if none
  \* the trades table and the balance, as the worker's risk check reads them
  pnl,            \* intent -> pnl of its row (None until close_trade)
  closeOrder,     \* the rows with an exit_time, by exit_time, newest last
  sinceClose,     \* half-seconds since the newest exit_time
  today,          \* intent -> date(entry_time) = date('now')
  dayChanged,     \* the date is no longer RiskFirewall._day
  metricsBalance, \* metrics.balance
  peakEq          \* metrics.peak_equity

clientVars == <<ws, connected, stopEvt, runnerTask, readerTask, hbTask, reqId,
                subscriptions, subIds>>
routerVars == <<futMap, futState>>
runnerVars == <<rpc, backoff, rconn, rreq, rname, rtodo, rwaitR, rwaitH>>
taskVars == <<reader, rdSock, hb>>
netVars == <<nconn, sockOpen, sentOn, reqKind, reqName, answer, streams, failsLeft>>
callerVars == <<cpc, cop, cname, creq, cerr>>
histVars == <<everConn, sleepBase, prevBase, sleepFor, lastDispatch>>
configVars == <<dryRun, multiplier>>
queueVars == <<tradeQueue, unfinished, nIntents>>
workerVars == <<wpc, intent, tradeId, tradeInFlight>>
tradeVars == <<ledger, sent, contract, outcome>>
engVars == <<configVars, ksEnabled, riskAllowed, queueVars, workerVars, tradeVars>>
timerVars == <<now, target, lastProcessed, curBucket, lastClosed, sigScore,
               intentSym, intentMin>>
candleVars == <<current, ret, emitted, delivered, seen, inOrder, nTicks,
                callbackRaised, twin, tick>>
riskVars == <<dailyStart, riskSnap, riskOut, nChecks>>
sizerVars == <<sizerCfg, sizeIn, sizeOut>>
scorerVars == <<sigIn, sigOut>>
indVars == <<bars, emaFast, emaSlow, prevClose, atrAvg, avgGain, avgLoss, rsiOut>>
htfVars == <<htfBuffer, lastHtf, prevHtf, fed, alignOut>>
bookVars == <<pnl, closeOrder, sinceClose, today, dayChanged, metricsBalance, peakEq>>
restVars == <<timerVars, candleVars, riskVars, sizerVars, scorerVars, indVars, htfVars,
              bookVars>>
vars == <<clientVars, routerVars, runnerVars, taskVars, netVars, callerVars, histVars,
          engVars, restVars>>

----
\* Pure pieces of the code.

\* faulty variant: doubling without the cap
DoubleBackoff(b) == b * 2

\* _run_forever: backoff = min(self._max_backoff, backoff * 2)
NextBackoff(b) == Min(MaxBackoff, b * 2)

\* _run_forever: sleep_for = min(self._max_backoff, backoff + jitter)
SleepFor(b, j) == Min(MaxBackoff, b + j)

\* _run_forever: jitter = random.random() * 0.3 * backoff, random() in [0, 1)
Jitters(b) == {0, (JitterPct * b) \div 200, (JitterPct * b) \div 100 - 1}

\* faulty variant: a reject_all that leaves the futures as they are
KeepFutures(fs, fm) == fs

\* MessageRouter.reject_all: set_exception on every future of the map not done
RejectAllFut(fs, fm) ==
  [i \in Ids |-> IF i \in fm /\ fs[i] = "pending" THEN "exception" ELSE fs[i]]

\* MessageRouter.reject_all: self._futures.clear()
RejectAllMap(fm) == {}

\* MessageRouter.resolve: self._futures.pop(req_id, None)
ResolveMap(fm, i) == fm \ {i}

\* faulty variant: a resolve that completes the oldest pending future
ResolveOldest(fs, fm, i) ==
  LET pend == {j \in fm: fs[j] = "pending"} IN
  IF i \in fm /\ pend # {}
    THEN [fs EXCEPT ![CHOOSE j \in pend: \A k \in pend: j <= k] = "result"]
    ELSE fs

\* MessageRouter.resolve: set_result if the popped future exists and is not done
ResolveFut(fs, fm, i) ==
  IF i \in fm /\ fs[i] = "pending" THEN [fs EXCEPT ![i] = "result"] ELSE fs

\* faulty variant: _resubscribe_all without the clear
KeepSubIds(si) == si

\* _resubscribe_all: self._sub_ids.clear()
ClearSubIds(si) == [n \in Names |-> 0]

\* what is left of the dict keys after pop(name, None)
Pop(seq, n) == SelectSeq(seq, LAMBDA x: x # n)

\* dict keys after self._subscriptions[name] = ...
Put(seq, n) == IF \E k \in 1..Len(seq): seq[k] = n THEN seq ELSE Append(seq, n)

Keys(seq) == {seq[k] : k \in 1..Len(seq)}

Alive(r) == rpc[r] \notin {"none", "done"}

\* the event loop runs the tasks that are ready before it polls sockets and timers
NoReady == \A c \in Callers: cpc[c] # "woken"

\* the model hands out MaxReq correlation ids: one is kept for every task
\* that is inside request() and has not taken its id yet
IdFree ==
  reqId + Cardinality({c \in Callers: cpc[c] \in {"wait_conn", "woken"}}) < MaxReq

----
\* State after DerivWSClient.__init__.
InitClient ==
  /\ ws = 0 /\ connected = FALSE /\ stopEvt = FALSE
  /\ runnerTask = 0 /\ readerTask = 0 /\ hbTask = 0 /\ reqId = 0
  /\ subscriptions = <<>> /\ subIds = [n \in Names |-> 0]
  /\ futMap = {} /\ futState = [i \in Ids |-> "none"]
  /\ rpc = [r \in Runners |-> "none"]
  /\ backoff = [r \in Runners |-> 0]
  /\ rconn = [r \in Runners |-> 0]
  /\ rreq = [r \in Runners |-> 0]
  /\ rname = [r \in Runners |-> 0]
  /\ rtodo = [r \in Runners |-> <<>>]
  /\ rwaitR = [r \in Runners |-> 0]
  /\ rwaitH = [r \in Runners |-> 0]
  /\ reader = [s \in Socks |-> "none"]
  /\ rdSock = [s \in Socks |-> 0]
  /\ hb = [s \in Socks |-> "none"]
  /\ nconn = 0 /\ sockOpen = [s \in Socks |-> FALSE]
  /\ sentOn = [i \in Ids |-> 0]
  /\ reqKind = [i \in Ids |-> "none"]
  /\ reqName = [i \in Ids |-> 0]
  /\ answer = [i \in Ids |-> "none"] /\ streams = {}
  /\ cpc = [c \in Callers |-> "idle"]
  /\ cop = [c \in Callers |-> "none"]
  /\ cname = [c \in Callers |-> 0]
  /\ creq = [c \in Callers |-> 0]
  /\ cerr = [c \in Callers |-> "none"]
  /\ everConn = [r \in Runners |-> FALSE]
  /\ sleepBase = [r \in Runners |-> 0]
  /\ prevBase = [r \in Runners |-> 0]
  /\ sleepFor = [r \in Runners |-> 0]
  /\ lastDispatch = <<0, 0, 0>>

\* State of run_engine when the worker task is created, for one configuration.
InitEngine ==
  /\ dryRun \in BOOLEAN /\ multiplier \in BOOLEAN
  /\ ksEnabled = FALSE /\ riskAllowed = TRUE
  /\ tradeQueue = <<>> /\ unfinished = 0 /\ nIntents = 0
  /\ tradeInFlight = FALSE
  /\ wpc = "get" /\ intent = 0 /\ tradeId = 0
  /\ ledger = [i \in Intents |-> "none"]
  /\ sent = [i \in Intents |-> {}]
  /\ contract = [i \in Intents |-> FALSE]
  /\ outcome = [i \in Intents |-> "none"]

\* the engine idle in its default configuration (dry run, rise/fall)
EngineIdle == InitEngine /\ dryRun /\ ~multiplier

\* run_engine before run_timer is started: nothing closed, nothing processed
InitTimer ==
  /\ now = 2 /\ target = 3
  /\ lastProcessed = 0
  /\ curBucket = [s \in Symbols |-> 0]
  /\ lastClosed = [s \in Symbols |-> 0]
  /\ sigScore = [s \in Symbols |-> 0]
  /\ intentSym = [i \in Intents |-> 0]
  /\ intentMin = [i \in Intents |-> 0]

\* Candle: a builder's candle; t is the bucket of open_time
NoCandle == [t |-> 0, o |-> 0, h |-> 0, l |-> 0, c |-> 0, v |-> 0]

\* a CandleBuilder after construction
InitCandles ==
  /\ current = NoCandle /\ twin = NoCandle /\ ret = NoCandle
  /\ emitted = <<>> /\ delivered = <<>>
  /\ seen = [b \in Buckets |-> 0]
  /\ inOrder = TRUE /\ nTicks = 0 /\ callbackRaised = FALSE
  /\ tick = <<0, 0, 0>>

\* RiskSnapshot; last is last_trade_closed_at_iso: "none" (None or empty),
\* "bad" (not an ISO date) or "iso", and then ago is the half-seconds passed
\* since that time
NoSnapshot ==
  [peak |-> 0, equity |-> 0, trades |-> 0, losses |-> 0, last |-> "none", ago |-> 0]

\* RiskDecision
Decision(a, why, rem) == [allowed |-> a, reason |-> why, remaining |-> rem]

\* a RiskFirewall after construction
InitRisk ==
  /\ dailyStart = 0 /\ nChecks = 0
  /\ riskSnap = NoSnapshot
  /\ riskOut = Decision(FALSE, "none", 0)

\* SizeDecision; the risk percentage is the fraction riskNum / riskDen, in
\* thousandths
NoSize == [allowed |-> FALSE, stake |-> 0, riskNum |-> 0, riskDen |-> 1, reason |-> "none"]

\* a PositionSizer with the default stakes, not called
SizerIdle ==
  /\ sizerCfg = [min |-> 1000, max |-> 1000000]
  /\ sizeIn = [balance |-> 0, score |-> 0]
  /\ sizeOut = NoSize

\* Signal; the score is the fraction num / den
Signal(side, num, den, why) == [side |-> side, num |-> num, den |-> den, reason |-> why]

NoSignal == Signal("", 0, 1, "none")

\* a strategy that was not asked
ScorerIdle ==
  /\ sigIn = [present |-> FALSE, price |-> 0, fast |-> 0, slow |-> 0, atr |-> 0, rsi |-> 0]
  /\ sigOut = NoSignal

\* an IndicatorEngine after construction
InitIndicators ==
  /\ bars = 0 /\ prevClose = 0
  /\ emaFast = 0 /\ emaSlow = 0 /\ atrAvg = 0
  /\ avgGain = 0 /\ avgLoss = 0
  /\ rsiOut = [num |-> 0, den |-> 0]

\* _AggCandle; NoAgg is None
NoAgg == [o |-> 0, h |-> 0, l |-> 0, c |-> 0]

NoAnswer == [side |-> "", neutral |-> FALSE, res |-> FALSE]

\* HigherTimeframeTrend.__init__
InitHtf ==
  /\ htfBuffer = <<>> /\ lastHtf = NoAgg /\ prevHtf = NoAgg
  /\ fed = <<>> /\ alignOut = NoAnswer

\* an empty trades table; the balance known and positive
InitBook ==
  /\ pnl = [i \in Intents |-> 0] /\ closeOrder = <<>> /\ sinceClose = 0
  /\ today = [i \in Intents |-> FALSE] /\ dayChanged = FALSE
  /\ metricsBalance = 1000 /\ peakEq = 1000

\* the parts of the engine a specification leaves alone
RestIdle ==
  InitTimer /\ InitCandles /\ InitRisk /\ SizerIdle /\ ScorerIdle /\ InitIndicators
    /\ InitHtf /\ InitBook

Init == InitClient /\ failsLeft = MaxFail /\ EngineIdle /\ RestIdle

----
\* Shared effects.

\* the values an action has already given to the router, the id map and the
\* reader tasks before the connection attempt ends inside the same run
Pre(fs, fm, si, rd, cp, hbv) ==
  [fs |-> fs, fm |-> fm, si |-> si, rd |-> rd, cp |-> cp, hb |-> hbv]
Cur == Pre(futState, futMap, subIds, reader, cpc, hb)

\* a caller whose future reject_all completes with the exception
Rejected(c, p) ==
  /\ cpc[c] = "wait_resp" /\ p.fs[creq[c]] = "pending"
  /\ RejectAllFut(p.fs, p.fm)[creq[c]] = "exception"

\* unsubscribe: `finally: self._sub_ids.pop(name, None)` of the callers in cs
PopForgotten(si, cs) ==
  [n \in Names |->
     IF \E c \in cs: cop[c] = "unsubscribe" /\ cname[c] = n THEN 0 ELSE si[n]]

\* the reader tasks after the sockets in closed are closed: recv() raises
\* ConnectionClosed and _reader_loop returns
ReadersAfterClose(rd, closed) ==
  [t \in Socks |->
     IF rd[t] = "running" /\ rdSock[t] \in closed THEN "returned" ELSE rd[t]]

\* a finished task whose connection attempt is over is no longer looked at:
\* live is the set of sockets of the attempts still going on
Settle(tk, live) ==
  [t \in Socks |->
     IF tk[t] \in {"returned", "raised", "cancelled"} /\ t \notin live
       THEN "over" ELSE tk[t]]

\* sockets of the attempts of the runner tasks other than r
LiveBut(r) ==
  {rconn[q] : q \in {q \in Runners: q # r /\ rpc[q] \in {"authorizing", "resub", "running"}}}

\* _reader_loop goes back to `await self._ws.recv()` after a frame
ReaderNext(t) ==
  IF ws = 0 THEN "raised"
  ELSE IF \E u \in Socks \ {t}: reader[u] = "running" /\ rdSock[u] = ws /\ ws # rdSock[t]
       THEN "raised"
       ELSE "running"

\* faulty variant: the runner task ends after a failed attempt
GiveUp(r, b, first) ==
  /\ rpc' = [rpc EXCEPT ![r] = "done"]
  /\ UNCHANGED <<sleepBase, prevBase, sleepFor>>

\* _run_forever after _connect_and_run is over: stop check, then the sleep
\* with backoff b; first is TRUE when the delay sequence starts again
EnterSleep(r, b, first) ==
  IF stopEvt
    THEN /\ rpc' = [rpc EXCEPT ![r] = "done"]
         /\ UNCHANGED <<sleepBase, prevBase, sleepFor>>
    ELSE \E j \in Jitters(b):
         /\ rpc' = [rpc EXCEPT ![r] = "sleeping"]
         /\ sleepFor' = [sleepFor EXCEPT ![r] = SleepFor(b, j)]
         /\ sleepBase' = [sleepBase EXCEPT ![r] = b]
         /\ prevBase' = [prevBase EXCEPT ![r] = IF first THEN 0 ELSE sleepBase[r]]

\* faulty variant: a finally block that leaves the event as it is
KeepEvent(ev) == ev

\* _connect_and_run: `finally: self._connected_evt.clear()`
ClearEvent(ev) == FALSE

\* _connect_and_run leaves by an exception raised inside its try block:
\* except Exception -> reject_all, finally -> clear, __aexit__ closes the
\* socket, _run_forever logs ws_loop_error and goes to the backoff sleep
AttemptFail(r, p) ==
  LET rej == {c \in Callers: Rejected(c, p)} IN
  /\ futState' = RejectAllFut(p.fs, p.fm)
  /\ futMap' = RejectAllMap(p.fm)
  /\ cpc' = [c \in Callers |-> IF c \in rej THEN "raised" ELSE p.cp[c]]
  /\ cerr' = [c \in Callers |-> IF c \in rej THEN "disconnected" ELSE cerr[c]]
  /\ subIds' = PopForgotten(p.si, rej)
  /\ connected' = ClearEvent(connected)
  /\ sockOpen' = [sockOpen EXCEPT ![rconn[r]] = FALSE]
  /\ reader' = Settle(ReadersAfterClose(p.rd, {rconn[r]}), LiveBut(r))
  /\ hb' = Settle(p.hb, LiveBut(r))
  /\ EnterSleep(r, backoff[r], FALSE)

----
\* DerivWSClient.start: clears the stop event and creates a runner task.
StartTask(r) ==
  /\ stopEvt' = FALSE
  /\ runnerTask' = r
  /\ rpc' = [rpc EXCEPT ![r] = "connecting"]
  /\ backoff' = [backoff EXCEPT ![r] = InitialBackoff]
  /\ rconn' = [rconn EXCEPT ![r] = 0]
  /\ rreq' = [rreq EXCEPT ![r] = 0]
  /\ rname' = [rname EXCEPT ![r] = 0]
  /\ rtodo' = [rtodo EXCEPT ![r] = <<>>]
  /\ rwaitR' = [rwaitR EXCEPT ![r] = 0]
  /\ rwaitH' = [rwaitH EXCEPT ![r] = 0]
  /\ everConn' = [everConn EXCEPT ![r] = FALSE]
  /\ sleepBase' = [sleepBase EXCEPT ![r] = 0]
  /\ prevBase' = [prevBase EXCEPT ![r] = 0]
  /\ sleepFor' = [sleepFor EXCEPT ![r] = 0]
  /\ UNCHANGED <<ws, connected, readerTask, hbTask, reqId, subscriptions, subIds,
                 routerVars, taskVars, netVars, callerVars, lastDispatch>>

\* every start() creates a new task object
FreeRunner(r) == rpc[r] = "none" /\ \A q \in Runners: q < r => rpc[q] # "none"

\* start() while no runner task is alive
Start ==
  /\ \A q \in Runners: ~Alive(q)
  /\ Cardinality({q \in Runners: rpc[q] # "none"}) < MaxStarts
  /\ \E r \in Runners: FreeRunner(r) /\ StartTask(r)
  /\ UNCHANGED <<engVars, restVars>>

\* start() while a runner task is alive
StartAgain ==
  /\ \E q \in Runners: Alive(q)
  /\ \E r \in Runners: FreeRunner(r) /\ StartTask(r)
  /\ UNCHANGED <<engVars, restVars>>

\* _disconnect: `if self._x_task: self._x_task.cancel()` on the tasks tk,
\* t being the task the field holds (0 is None)
CancelTask(tk, t) ==
  [x \in Socks |-> IF x = t /\ tk[x] = "running" THEN "cancelled" ELSE tk[x]]

\* DerivWSClient.stop: sets the stop event, cancels self._runner_task and
\* runs _disconnect; the cancelled runner leaves through its finally blocks.
Stop ==
  LET r == runnerTask
      dies == r # 0 /\ Alive(r)
      held == IF dies /\ rpc[r] \in {"authorizing", "resub", "running"}
                THEN {rconn[r]} ELSE {}
      closed == held \cup (IF ws # 0 THEN {ws} ELSE {})
      rej == {c \in Callers: Rejected(c, Cur)}
      rd1 == CancelTask(reader, readerTask)
  IN
  /\ stopEvt' = TRUE
  /\ rpc' = [q \in Runners |-> IF dies /\ q = r THEN "done" ELSE rpc[q]]
  /\ connected' = FALSE
  /\ futState' = RejectAllFut(futState, futMap)
  /\ futMap' = RejectAllMap(futMap)
  /\ cpc' = [c \in Callers |-> IF c \in rej THEN "raised" ELSE cpc[c]]
  /\ cerr' = [c \in Callers |-> IF c \in rej THEN "disconnected" ELSE cerr[c]]
  /\ subIds' = PopForgotten(subIds, rej)
  /\ hb' = Settle(CancelTask(hb, hbTask), LiveBut(r))
  /\ hbTask' = 0
  /\ reader' = Settle(ReadersAfterClose(rd1, closed), LiveBut(r))
  /\ readerTask' = 0
  /\ sockOpen' = [s \in Socks |-> IF s \in closed THEN FALSE ELSE sockOpen[s]]
  /\ ws' = 0
  /\ backoff' = [q \in Runners |-> IF dies /\ q = r THEN 0 ELSE backoff[q]]
  /\ rconn' = [q \in Runners |-> IF dies /\ q = r THEN 0 ELSE rconn[q]]
  /\ rreq' = [q \in Runners |-> IF dies /\ q = r THEN 0 ELSE rreq[q]]
  /\ rname' = [q \in Runners |-> IF dies /\ q = r THEN 0 ELSE rname[q]]
  /\ rtodo' = [q \in Runners |-> IF dies /\ q = r THEN <<>> ELSE rtodo[q]]
  /\ rwaitR' = [q \in Runners |-> IF dies /\ q = r THEN 0 ELSE rwaitR[q]]
  /\ rwaitH' = [q \in Runners |-> IF dies /\ q = r THEN 0 ELSE rwaitH[q]]
  /\ everConn' = [q \in Runners |-> IF dies /\ q = r THEN FALSE ELSE everConn[q]]
  /\ sleepBase' = [q \in Runners |-> IF dies /\ q = r THEN 0 ELSE sleepBase[q]]
  /\ prevBase' = [q \in Runners |-> IF dies /\ q = r THEN 0 ELSE prevBase[q]]
  /\ sleepFor' = [q \in Runners |-> IF dies /\ q = r THEN 0 ELSE sleepFor[q]]
  /\ UNCHANGED <<runnerTask, reqId, subscriptions, rdSock, nconn, sentOn,
                 reqKind, reqName, answer, streams, failsLeft, cop, cname,
                 creq, lastDispatch>>
  /\ UNCHANGED <<engVars, restVars>>

----
\* The runner task: _run_forever and _connect_and_run.

\* the brokerage can answer request i and a reader task t is there to read it
Deliverable(i, t) ==
  /\ NoReady
  /\ answer[i] = "none"
  /\ sentOn[i] # 0 /\ sockOpen[sentOn[i]]
  /\ reader[t] = "running" /\ rdSock[t] = sentOn[i]

\* the reader tasks after task t has handled a frame and loops
ReadersAfterFrame(t) == [reader EXCEPT ![t] = ReaderNext(t)]
RdSockAfterFrame(t) == [rdSock EXCEPT ![t] = IF ReaderNext(t) = "running" THEN ws ELSE @]

\* websockets.connect succeeds: self._ws = ws, clear the event, start the
\* reader, send the authorize request through _raw_request
RunnerConnectOK(r) ==
  /\ rpc[r] = "connecting" /\ NoReady
  /\ nconn < MaxConn /\ IdFree
  /\ LET s == nconn + 1
         i == reqId + 1
     IN
     /\ nconn' = s
     /\ sockOpen' = [sockOpen EXCEPT ![s] = TRUE]
     /\ ws' = s
     /\ connected' = FALSE
     /\ reader' = [reader EXCEPT ![s] = "running"]
     /\ rdSock' = [rdSock EXCEPT ![s] = s]
     /\ readerTask' = s
     /\ reqId' = i
     /\ futMap' = futMap \cup {i}
     /\ futState' = [futState EXCEPT ![i] = "pending"]
     /\ sentOn' = [sentOn EXCEPT ![i] = s]
     /\ reqKind' = [reqKind EXCEPT ![i] = "authorize"]
     /\ rpc' = [rpc EXCEPT ![r] = "authorizing"]
     /\ rconn' = [rconn EXCEPT ![r] = s]
     /\ rreq' = [rreq EXCEPT ![r] = i]
     /\ everConn' = [everConn EXCEPT ![r] = FALSE]
  /\ UNCHANGED <<stopEvt, runnerTask, hbTask, subscriptions, subIds, backoff,
                 rname, rtodo, rwaitR, rwaitH, hb, reqName, answer, streams,
                 failsLeft, callerVars, sleepBase, prevBase, sleepFor,
                 lastDispatch>>
  /\ UNCHANGED <<engVars, restVars>>

\* websockets.connect raises: _run_forever logs and sleeps
RunnerConnectFail(r) ==
  /\ rpc[r] = "connecting" /\ NoReady
  /\ failsLeft > 0
  /\ failsLeft' = failsLeft - 1
  /\ EnterSleep(r, backoff[r], FALSE)
  /\ everConn' = [everConn EXCEPT ![r] = FALSE]
  /\ UNCHANGED <<clientVars, routerVars, backoff, rconn, rreq, rname, rtodo,
                 rwaitR, rwaitH, taskVars, nconn, sockOpen, sentOn, reqKind,
                 reqName, answer, streams, callerVars, lastDispatch>>
  /\ UNCHANGED <<engVars, restVars>>

\* asyncio.sleep(sleep_for) is over: double the backoff, test the loop condition
SleepDone(r) ==
  /\ rpc[r] = "sleeping" /\ NoReady
  /\ backoff' = [backoff EXCEPT ![r] = NextBackoff(backoff[r])]
  /\ rpc' = [rpc EXCEPT ![r] = IF stopEvt THEN "done" ELSE "connecting"]
  /\ sleepFor' = [sleepFor EXCEPT ![r] = 0]
  /\ UNCHANGED <<clientVars, routerVars, rconn, rreq, rname, rtodo, rwaitR,
                 rwaitH, taskVars, netVars, callerVars, everConn, sleepBase,
                 prevBase, lastDispatch>>
  /\ UNCHANGED <<engVars, restVars>>

\* _resubscribe_all loop over the names in todo: _activate_subscription of the
\* first one up to the await of its response, or asyncio.wait when none is
\* left.  conn1 is the event, h the heartbeat task, p the values given so far.
ActivateNext(r, todo, p, conn1, h) ==
  IF todo = <<>>
    THEN /\ rpc' = [rpc EXCEPT ![r] = "running"]
         /\ rwaitR' = [rwaitR EXCEPT ![r] = readerTask]
         /\ rwaitH' = [rwaitH EXCEPT ![r] = h]
         /\ futState' = p.fs /\ futMap' = p.fm /\ subIds' = p.si
         /\ reader' = p.rd /\ hb' = p.hb /\ cpc' = p.cp /\ connected' = conn1
         /\ UNCHANGED <<cerr, sockOpen, sleepBase, prevBase, sleepFor, reqId,
                        sentOn, reqKind, reqName, rreq, rname, rtodo>>
    ELSE
      LET n == Head(todo)
          i == reqId + 1
      IN
      IF n \notin Keys(subscriptions) \/ ws = 0
        THEN \* KeyError of self._subscriptions[name], or "WebSocket not open"
             /\ AttemptFail(r, p)
             /\ UNCHANGED <<reqId, sentOn, reqKind, reqName, rreq,
                            rname, rtodo, rwaitR, rwaitH>>
        ELSE IF ~sockOpen[ws]
          THEN \* registered, then send raises ConnectionClosed
               /\ reqId' = i
               /\ reqKind' = [reqKind EXCEPT ![i] = "subscribe"]
               /\ reqName' = [reqName EXCEPT ![i] = n]
               /\ AttemptFail(r, Pre([p.fs EXCEPT ![i] = "pending"], p.fm \cup {i},
                                     p.si, p.rd, p.cp, p.hb))
               /\ UNCHANGED <<sentOn, rreq, rname, rtodo, rwaitR, rwaitH>>
          ELSE /\ reqId' = i
               /\ reqKind' = [reqKind EXCEPT ![i] = "subscribe"]
               /\ reqName' = [reqName EXCEPT ![i] = n]
               /\ sentOn' = [sentOn EXCEPT ![i] = ws]
               /\ futState' = [p.fs EXCEPT ![i] = "pending"]
               /\ futMap' = p.fm \cup {i}
               /\ rpc' = [rpc EXCEPT ![r] = "resub"]
               /\ rreq' = [rreq EXCEPT ![r] = i]
               /\ rname' = [rname EXCEPT ![r] = n]
               /\ rtodo' = [rtodo EXCEPT ![r] = Tail(todo)]
               /\ subIds' = p.si /\ reader' = p.rd /\ hb' = p.hb /\ cpc' = p.cp
               /\ connected' = conn1
               /\ UNCHANGED <<cerr, sockOpen, sleepBase, prevBase, sleepFor,
                              rwaitR, rwaitH>>

\* the event is set: every task suspended in wait_until_connected is woken
WakeAll(cp) == [c \in Callers |-> IF cp[c] = "wait_conn" THEN "woken" ELSE cp[c]]

\* faulty variant: the error field of the authorize response is not looked at
AcceptAny(err) == TRUE

\* is_connected after the authorize response: set unless it carries an error
AuthAccepted(err) == ~err

\* the reader task t resolves the authorize response; the runner goes on:
\* an error aborts the attempt, else set the event, start the heartbeat and
\* run _resubscribe_all
AuthResponse(r, t, err) ==
  LET i == rreq[r]
      fs1 == ResolveFut(futState, futMap, i)
      fm1 == ResolveMap(futMap, i)
      rd1 == ReadersAfterFrame(t)
  IN
  /\ rpc[r] = "authorizing"
  /\ Deliverable(i, t)
  /\ i \in futMap /\ futState[i] = "pending"
  /\ ~err /\ subscriptions # <<>> => IdFree
  /\ answer' = [answer EXCEPT ![i] = IF err THEN "error" ELSE "ok"]
  /\ rdSock' = RdSockAfterFrame(t)
  /\ IF ~AuthAccepted(err)
       THEN /\ AttemptFail(r, Pre(fs1, fm1, subIds, rd1, cpc, hb))
            /\ UNCHANGED <<hbTask, everConn, reqId, sentOn, reqKind, reqName,
                           rreq, rname, rtodo, rwaitR, rwaitH>>
       ELSE /\ everConn' = [everConn EXCEPT ![r] = TRUE]
            /\ hbTask' = rconn[r]
            /\ ActivateNext(r, subscriptions,
                            Pre(fs1, fm1, ClearSubIds(subIds), rd1, WakeAll(cpc),
                                [hb EXCEPT ![rconn[r]] = "running"]),
                            TRUE, rconn[r])
  /\ UNCHANGED <<ws, stopEvt, runnerTask, readerTask, subscriptions, backoff,
                 rconn, nconn, streams, failsLeft, cop, cname, creq, lastDispatch>>
  /\ UNCHANGED <<engVars, restVars>>

\* the reader task t resolves the response to the subscription request of
\* _activate_subscription: an error body raises, else the id is stored and
\* the loop of _resubscribe_all goes on
SubResponse(r, t, err) ==
  LET i == rreq[r]
      fs1 == ResolveFut(futState, futMap, i)
      fm1 == ResolveMap(futMap, i)
      rd1 == ReadersAfterFrame(t)
      si1 == [subIds EXCEPT ![rname[r]] = i]
  IN
  /\ rpc[r] = "resub"
  /\ Deliverable(i, t)
  /\ i \in futMap /\ futState[i] = "pending"
  /\ ~err /\ rtodo[r] # <<>> => IdFree
  /\ answer' = [answer EXCEPT ![i] = IF err THEN "error" ELSE "ok"]
  /\ streams' = IF err THEN streams ELSE streams \cup {i}
  /\ rdSock' = RdSockAfterFrame(t)
  /\ IF err
       THEN /\ AttemptFail(r, Pre(fs1, fm1, subIds, rd1, cpc, hb))
            /\ UNCHANGED <<reqId, sentOn, reqKind, reqName, rreq,
                           rname, rtodo, rwaitR, rwaitH>>
       ELSE ActivateNext(r, rtodo[r], Pre(fs1, fm1, si1, rd1, cpc, hb), connected,
                         hbTask)
  /\ UNCHANGED <<ws, stopEvt, runnerTask, readerTask, hbTask, subscriptions,
                 backoff, rconn, nconn, failsLeft, cop, cname, creq, everConn,
                 lastDispatch>>
  /\ UNCHANGED <<engVars, restVars>>

\* asyncio.wait_for inside _raw_request times out while the runner awaits the
\* authorize or the subscription response: the future is cancelled and
\* DerivWSError leaves the try block
RunnerTimeout(r) ==
  /\ rpc[r] \in {"authorizing", "resub"} /\ NoReady
  /\ futState[rreq[r]] = "pending"
  /\ AttemptFail(r, Pre([futState EXCEPT ![rreq[r]] = "cancelled"], futMap,
                        subIds, reader, cpc, hb))
  /\ UNCHANGED <<ws, stopEvt, runnerTask, readerTask, hbTask, reqId,
                 subscriptions, backoff, rconn, rreq, rname, rtodo, rwaitR,
                 rwaitH, rdSock, nconn, sentOn, reqKind, reqName, answer,
                 streams, failsLeft, cop, cname, creq, everConn,
                 lastDispatch>>
  /\ UNCHANGED <<engVars, restVars>>

\* the future the runner awaits was rejected by a reject_all of another task:
\* DerivWSError leaves the try block
RunnerFutureRejected(r) ==
  /\ rpc[r] \in {"authorizing", "resub"}
  /\ futState[rreq[r]] = "exception"
  /\ AttemptFail(r, Cur)
  /\ UNCHANGED <<ws, stopEvt, runnerTask, readerTask, hbTask, reqId,
                 subscriptions, backoff, rconn, rreq, rname, rtodo, rwaitR,
                 rwaitH, rdSock, nconn, sentOn, reqKind, reqName, answer,
                 streams, failsLeft, cop, cname, creq, everConn, lastDispatch>>
  /\ UNCHANGED <<engVars, restVars>>

\* a task given to asyncio.wait is done
ReaderDone(t) == t # 0 /\ reader[t] \in {"returned", "raised", "cancelled", "over"}
HbDone(t) == t # 0 /\ hb[t] \in {"raised", "cancelled", "over"}

\* asyncio.wait(..., return_when=FIRST_EXCEPTION) returns: a task raised, or
\* both are done.  `raise exc` leaves before the pending task is cancelled;
\* exception() of a cancelled task raises CancelledError, which only the
\* finally block and __aexit__ handle; otherwise the attempt returns and
\* _run_forever resets the backoff.
RunnerWaitReturns(r) ==
  LET R == rwaitR[r]
      H == rwaitH[r]
      someRaised == \/ R = 0 \/ H = 0
                    \/ R # 0 /\ reader[R] \in {"raised", "over"}
                    \/ H # 0 /\ hb[H] \in {"raised", "over"}
      someCancelled == \/ R # 0 /\ reader[R] \in {"cancelled", "over"}
                       \/ H # 0 /\ hb[H] \in {"cancelled", "over"}
  IN
  /\ rpc[r] = "running"
  /\ someRaised \/ (ReaderDone(R) /\ HbDone(H))
  /\ \/ /\ someRaised
        /\ AttemptFail(r, Cur)
        /\ UNCHANGED backoff
     \/ /\ someCancelled
        /\ connected' = FALSE
        /\ sockOpen' = [sockOpen EXCEPT ![rconn[r]] = FALSE]
        /\ reader' = Settle(ReadersAfterClose(reader, {rconn[r]}), LiveBut(r))
        /\ hb' = Settle(hb, LiveBut(r))
        /\ rpc' = [rpc EXCEPT ![r] = "done"]
        /\ UNCHANGED <<routerVars, cpc, cerr, subIds, sleepBase, prevBase,
                       sleepFor, backoff>>
     \/ /\ ~someRaised /\ ~someCancelled
        /\ connected' = FALSE
        /\ sockOpen' = [sockOpen EXCEPT ![rconn[r]] = FALSE]
        /\ reader' = Settle(ReadersAfterClose(reader, {rconn[r]}), LiveBut(r))
        /\ hb' = Settle(hb, LiveBut(r))
        /\ backoff' = [backoff EXCEPT ![r] = InitialBackoff]
        /\ EnterSleep(r, InitialBackoff, TRUE)
        /\ UNCHANGED <<routerVars, cpc, cerr, subIds>>
  /\ UNCHANGED <<ws, stopEvt, runnerTask, readerTask, hbTask, reqId,
                 subscriptions, rconn, rreq, rname, rtodo, rwaitR, rwaitH,
                 rdSock, nconn, sentOn, reqKind, reqName, answer, streams,
                 failsLeft, cop, cname, creq, everConn, lastDispatch>>
  /\ UNCHANGED <<engVars, restVars>>

----
\* Reader and heartbeat tasks, the socket and the brokerage.

\* _heartbeat_loop: self._ws.ping() raises (socket closed, or self._ws is
\* None) or the pong does not come within 5 s; the task ends by the exception
HeartbeatFail(h) ==
  /\ hb[h] = "running" /\ NoReady
  /\ hb' = Settle([hb EXCEPT ![h] = "raised"], LiveBut(0))
  /\ UNCHANGED <<clientVars, routerVars, runnerVars, reader, rdSock, netVars,
                 callerVars, histVars>>
  /\ UNCHANGED <<engVars, restVars>>

\* the peer closes socket s (or the socket breaks): recv() raises
\* ConnectionClosed and _reader_loop returns
PeerClose(s) ==
  /\ sockOpen[s] /\ NoReady
  /\ sockOpen' = [sockOpen EXCEPT ![s] = FALSE]
  /\ reader' = ReadersAfterClose(reader, {s})
  /\ UNCHANGED <<clientVars, routerVars, runnerVars, rdSock, hb, nconn, sentOn,
                 reqKind, reqName, answer, streams, failsLeft, callerVars,
                 histVars>>
  /\ UNCHANGED <<engVars, restVars>>

\* _reader_loop gets a frame json.loads or msg.get cannot handle: logged, re-raised
ReaderError(t) ==
  /\ reader[t] = "running" /\ NoReady
  /\ sockOpen[rdSock[t]]
  /\ reader' = [reader EXCEPT ![t] = "raised"]
  /\ UNCHANGED <<clientVars, routerVars, runnerVars, rdSock, hb, netVars,
                 callerVars, histVars>>
  /\ UNCHANGED <<engVars, restVars>>

\* message types of push frames; the ones _reader_loop dispatches
MsgTypes == {"tick", "ohlc", "proposal", "proposal_open_contract"}
Dispatched == {"tick", "ohlc", "proposal"}

\* the name _reader_loop finds for a subscription id in self._sub_ids, 0 if none
NameOf(sid) == IF \E n \in Names: subIds[n] = sid
                 THEN CHOOSE n \in Names: subIds[n] = sid ELSE 0

\* the name whose handler _reader_loop awaits for a frame of type mt that
\* carries subscription id sid, 0 if it awaits none
HandlerFor(sid, mt) == IF mt \in Dispatched THEN NameOf(sid) ELSE 0

\* a frame of stream sid can come in on the socket the reader task t reads
PushArrives(t, sid) ==
  /\ reader[t] = "running"
  /\ sockOpen[rdSock[t]]
  /\ sid \in streams /\ sentOn[sid] = rdSock[t]

\* the brokerage pushes a frame of stream sid; the reader task t looks the id
\* up and awaits the handler, which may raise
Push(t, sid, mt, ok) ==
  /\ PushArrives(t, sid) /\ NoReady
  /\ LET n == HandlerFor(sid, mt) IN
     IF n = 0
       THEN /\ reader' = ReadersAfterFrame(t)
            /\ rdSock' = RdSockAfterFrame(t)
            /\ UNCHANGED lastDispatch
       ELSE IF n \notin Keys(subscriptions)
         THEN \* KeyError of self._subscriptions[name]
              /\ reader' = [reader EXCEPT ![t] = "raised"]
              /\ UNCHANGED <<rdSock, lastDispatch>>
         ELSE /\ lastDispatch' = <<n, sid, rdSock[t]>>
              /\ IF ok
                   THEN /\ reader' = ReadersAfterFrame(t)
                        /\ rdSock' = RdSockAfterFrame(t)
                   ELSE /\ reader' = [reader EXCEPT ![t] = "raised"]
                        /\ UNCHANGED rdSock
  /\ UNCHANGED <<clientVars, routerVars, runnerVars, hb, netVars, callerVars,
                 everConn, sleepBase, prevBase, sleepFor>>
  /\ UNCHANGED <<engVars, restVars>>

\* a response whose future is gone or done (timed out, rejected): resolve
\* pops the entry if there is one and leaves the future alone
LateResponse(i, t, err) ==
  /\ Deliverable(i, t)
  /\ ~(i \in futMap /\ futState[i] = "pending")
  /\ answer' = [answer EXCEPT ![i] = IF err THEN "error" ELSE "ok"]
  /\ streams' = IF reqKind[i] = "subscribe" /\ ~err THEN streams \cup {i} ELSE streams
  /\ futMap' = ResolveMap(futMap, i)
  /\ futState' = ResolveFut(futState, futMap, i)
  /\ reader' = ReadersAfterFrame(t)
  /\ rdSock' = RdSockAfterFrame(t)
  /\ UNCHANGED <<clientVars, runnerVars, hb, nconn, sockOpen, sentOn, reqKind,
                 reqName, failsLeft, callerVars, histVars>>
  /\ UNCHANGED <<engVars, restVars>>

----
\* Tasks of other modules calling request, subscribe and unsubscribe.

\* request(): wait_until_connected returns at once when the event is set
EnterRequest == IF connected THEN "woken" ELSE "wait_conn"

\* the calling tasks are interchangeable: they come in the order of their numbers
MayCall(c) == cpc[c] = "idle" /\ \A d \in Callers: d < c => cpc[d] # "idle"

\* request(payload)
CallRequest(c) ==
  /\ MayCall(c) /\ IdFree
  /\ cop' = [cop EXCEPT ![c] = "request"]
  /\ cpc' = [cpc EXCEPT ![c] = EnterRequest]
  /\ UNCHANGED <<clientVars, routerVars, runnerVars, taskVars, netVars, cname,
                 creq, cerr, histVars>>
  /\ UNCHANGED <<engVars, restVars>>

\* subscribe(name, request, on_message): store, activate if connected
CallSubscribe(c, n) ==
  /\ MayCall(c)
  /\ connected => IdFree
  /\ cop' = [cop EXCEPT ![c] = "subscribe"]
  /\ cname' = [cname EXCEPT ![c] = n]
  /\ subscriptions' = Put(subscriptions, n)
  /\ cpc' = [cpc EXCEPT ![c] = IF connected THEN EnterRequest ELSE "returned"]
  /\ UNCHANGED <<ws, connected, stopEvt, runnerTask, readerTask, hbTask, reqId,
                 subIds, routerVars, runnerVars, taskVars, netVars, creq, cerr,
                 histVars>>
  /\ UNCHANGED <<engVars, restVars>>

\* unsubscribe(name): drop the record, forget the stream if an id is known
CallUnsubscribe(c, n) ==
  /\ MayCall(c)
  /\ subIds[n] # 0 => IdFree
  /\ cop' = [cop EXCEPT ![c] = "unsubscribe"]
  /\ cname' = [cname EXCEPT ![c] = n]
  /\ subscriptions' = Pop(subscriptions, n)
  /\ cpc' = [cpc EXCEPT ![c] = IF subIds[n] = 0 THEN "returned" ELSE EnterRequest]
  /\ UNCHANGED <<ws, connected, stopEvt, runnerTask, readerTask, hbTask, reqId,
                 subIds, routerVars, runnerVars, taskVars, netVars, creq, cerr,
                 histVars>>
  /\ UNCHANGED <<engVars, restVars>>

\* the request kind of the caller's operation
KindOf(op) == CASE op = "subscribe" -> "subscribe"
                [] op = "unsubscribe" -> "forget"
                [] OTHER -> "request"

\* the caller leaves request() by an exception e; unsubscribe runs its finally
CallerRaises(c, e, si) ==
  /\ cpc' = [cpc EXCEPT ![c] = "raised"]
  /\ cerr' = [cerr EXCEPT ![c] = e]
  /\ subIds' = PopForgotten(si, {c})

\* _raw_request after wait_until_connected: check self._ws, take an id,
\* register the future, send the frame
CallerProceed(c) ==
  /\ cpc[c] = "woken"
  /\ IF ws = 0
       THEN /\ CallerRaises(c, "not_open", subIds)
            /\ UNCHANGED <<reqId, routerVars, sentOn, reqKind, reqName, creq>>
       ELSE LET i == reqId + 1 IN
            /\ reqId < MaxReq
            /\ reqId' = i
            /\ futMap' = futMap \cup {i}
            /\ futState' = [futState EXCEPT ![i] = "pending"]
            /\ reqKind' = [reqKind EXCEPT ![i] = KindOf(cop[c])]
            /\ reqName' = [reqName EXCEPT ![i] = cname[c]]
            /\ creq' = [creq EXCEPT ![c] = i]
            /\ IF sockOpen[ws]
                 THEN /\ sentOn' = [sentOn EXCEPT ![i] = ws]
                      /\ cpc' = [cpc EXCEPT ![c] = "wait_resp"]
                      /\ UNCHANGED <<cerr, subIds>>
                 ELSE /\ CallerRaises(c, "closed", subIds)
                      /\ UNCHANGED <<sentOn>>
  /\ UNCHANGED <<ws, connected, stopEvt, runnerTask, readerTask, hbTask,
                 subscriptions, runnerVars, taskVars, nconn, sockOpen, answer,
                 streams, failsLeft, cop, cname, everConn, sleepBase, prevBase,
                 sleepFor, lastDispatch>>
  /\ UNCHANGED <<engVars, restVars>>

\* the reader task t resolves the caller's future; the caller goes on:
\* request returns the response, _activate_subscription raises on an error
\* body or stores the id, unsubscribe drops the id
CallerResponse(c, t, err) ==
  LET i == creq[c] IN
  /\ cpc[c] = "wait_resp"
  /\ Deliverable(i, t)
  /\ i \in futMap /\ futState[i] = "pending"
  /\ answer' = [answer EXCEPT ![i] = IF err THEN "error" ELSE "ok"]
  /\ streams' = IF cop[c] = "subscribe" /\ ~err THEN streams \cup {i} ELSE streams
  /\ futMap' = ResolveMap(futMap, i)
  /\ futState' = ResolveFut(futState, futMap, i)
  /\ reader' = ReadersAfterFrame(t)
  /\ rdSock' = RdSockAfterFrame(t)
  /\ IF cop[c] = "subscribe" /\ err
       THEN CallerRaises(c, "subscribe_error", subIds)
       ELSE /\ cpc' = [cpc EXCEPT ![c] = "returned"]
            /\ subIds' = IF cop[c] = "subscribe"
                           THEN [subIds EXCEPT ![cname[c]] = i]
                           ELSE PopForgotten(subIds, {c})
            /\ UNCHANGED cerr
  /\ UNCHANGED <<ws, connected, stopEvt, runnerTask, readerTask, hbTask, reqId,
                 subscriptions, runnerVars, hb, nconn, sockOpen, sentOn, reqKind,
                 reqName, failsLeft, cop, cname, creq, histVars>>
  /\ UNCHANGED <<engVars, restVars>>

\* faulty variant: wait_until_connected without a timeout
NoConnectTimeout(c) == FALSE

\* wait_until_connected(timeout=30.0): the timer of asyncio.wait_for is armed
\* as long as the task is suspended on the event
ConnectWaitExpires(c) == cpc[c] = "wait_conn"

\* asyncio.wait_for(fut, timeout=self._request_timeout): likewise for the future
RequestWaitExpires(c) == cpc[c] = "wait_resp" /\ futState[creq[c]] = "pending"

\* asyncio.wait_for(fut, timeout=self._request_timeout) times out: the future
\* is cancelled, DerivWSError("Request timeout") is raised to this caller
CallerTimeout(c) ==
  /\ RequestWaitExpires(c) /\ NoReady
  /\ futState' = [futState EXCEPT ![creq[c]] = "cancelled"]
  /\ CallerRaises(c, "timeout", subIds)
  /\ UNCHANGED <<ws, connected, stopEvt, runnerTask, readerTask, hbTask, reqId,
                 subscriptions, futMap, runnerVars, taskVars, netVars, cop,
                 cname, creq, histVars>>
  /\ UNCHANGED <<engVars, restVars>>

\* wait_until_connected times out: asyncio.TimeoutError leaves request()
CallerConnTimeout(c) ==
  /\ ConnectWaitExpires(c) /\ NoReady
  /\ CallerRaises(c, "connect_timeout", subIds)
  /\ UNCHANGED <<ws, connected, stopEvt, runnerTask, readerTask, hbTask, reqId,
                 subscriptions, routerVars, runnerVars, taskVars, netVars, cop,
                 cname, creq, histVars>>
  /\ UNCHANGED <<engVars, restVars>>

----
\* The client used as the engine uses it: start() only while no runner task
\* is alive.
Next ==
  \/ Start
  \/ Stop
  \/ \E r \in Runners: RunnerConnectOK(r)
  \/ \E r \in Runners: RunnerConnectFail(r)
  \/ \E r \in Runners: SleepDone(r)
  \/ \E r \in Runners, t \in Socks, err \in BOOLEAN: AuthResponse(r, t, err)
  \/ \E r \in Runners, t \in Socks, err \in BOOLEAN: SubResponse(r, t, err)
  \/ \E r \in Runners: RunnerTimeout(r)
  \/ \E r \in Runners: RunnerWaitReturns(r)
  \/ \E h \in Socks: HeartbeatFail(h)
  \/ \E s \in Socks: PeerClose(s)
  \/ \E t \in Socks: ReaderError(t)
  \/ \E t \in Socks, sid \in Ids, mt \in MsgTypes, ok \in BOOLEAN: Push(t, sid, mt, ok)
  \/ \E i \in Ids, t \in Socks, err \in BOOLEAN: LateResponse(i, t, err)
  \/ \E c \in Callers: CallRequest(c)
  \/ \E c \in Callers, n \in Names: CallSubscribe(c, n)
  \/ \E c \in Callers, n \in Names: CallUnsubscribe(c, n)
  \/ \E c \in Callers: CallerProceed(c)
  \/ \E c \in Callers, t \in Socks, err \in BOOLEAN: CallerResponse(c, t, err)
  \/ \E c \in Callers: CallerTimeout(c)
  \/ \E c \in Callers: CallerConnTimeout(c)

Spec == Init /\ [][Next]_vars

\* The connection loop alone, with enough failed connects for the backoff
\* to reach its cap: no other module calls the client.
InitReconnect == InitClient /\ failsLeft = MaxBackoffFails /\ EngineIdle /\ RestIdle

NextReconnect ==
  \/ Start
  \/ Stop
  \/ \E r \in Runners: RunnerConnectOK(r)
  \/ \E r \in Runners: RunnerConnectFail(r)
  \/ \E r \in Runners: SleepDone(r)
  \/ \E r \in Runners, t \in Socks, err \in BOOLEAN: AuthResponse(r, t, err)
  \/ \E r \in Runners: RunnerTimeout(r)
  \/ \E r \in Runners: RunnerWaitReturns(r)
  \/ \E h \in Socks: HeartbeatFail(h)
  \/ \E s \in Socks: PeerClose(s)
  \/ \E t \in Socks: ReaderError(t)

SpecReconnect == InitReconnect /\ [][NextReconnect]_vars

\* The lifecycle calls in any order: start() also while a runner task is alive.
NextLifecycle ==
  \/ Start
  \/ StartAgain
  \/ Stop
  \/ \E r \in Runners: RunnerConnectOK(r)
  \/ \E r \in Runners: RunnerConnectFail(r)
  \/ \E r \in Runners: SleepDone(r)
  \/ \E r \in Runners, t \in Socks, err \in BOOLEAN: AuthResponse(r, t, err)
  \/ \E r \in Runners: RunnerTimeout(r)
  \/ \E r \in Runners: RunnerFutureRejected(r)
  \/ \E r \in Runners: RunnerWaitReturns(r)
  \/ \E h \in Socks: HeartbeatFail(h)
  \/ \E s \in Socks: PeerClose(s)
  \/ \E t \in Socks: ReaderError(t)
  \/ \E i \in Ids, t \in Socks, err \in BOOLEAN: LateResponse(i, t, err)

SpecLifecycle == Init /\ [][NextLifecycle]_vars

\* The event loop runs a task that is ready, and a timer armed by
\* asyncio.wait_for fires unless the wait ends first.
SpecFair ==
  /\ Spec
  /\ \A c \in Callers: WF_vars(CallerProceed(c))
  /\ \A c \in Callers: WF_vars(CallerTimeout(c))
  /\ \A c \in Callers: WF_vars(CallerConnTimeout(c))

----
\* Claims about the transport client.

InAttempt == {"authorizing", "resub", "running"}

\* a caller suspended on its future has its frame on the socket of an attempt
\* that is still going on
NoOrphan ==
  \A c \in Callers:
    cpc[c] = "wait_resp" =>
      \E r \in Runners: rpc[r] \in InAttempt /\ sentOn[creq[c]] = rconn[r]

\* C1: when a connection attempt ends by a failure, in the same run and so
\* before the backoff sleep starts, the pending-request map is emptied and
\* every caller suspended on a future is released with the disconnected
\* error; no caller is ever suspended on a future whose frame went out on a
\* socket of an attempt that is over.
C1_RejectedBeforeBackoff ==
  [][/\ \A r \in Runners:
          (rpc[r] \in InAttempt /\ rpc'[r] = "sleeping") =>
            /\ futMap' = {}
            /\ \A c \in Callers:
                 cpc[c] = "wait_resp" =>
                   cpc'[c] = "raised" /\ cerr'[c] = "disconnected"
     /\ NoOrphan']_vars

\* a caller was rejected with the disconnected error and the runner sleeps
C1_Witness ==
  \E r \in Runners, c \in Callers:
    rpc[r] = "sleeping" /\ cpc[c] = "raised" /\ cerr[c] = "disconnected"

\* C2 (as claimed): the sleep that follows an attempt which reached Connected
\* uses the initial backoff.
C2_ResetAfterConnected ==
  \A r \in Runners:
    (rpc[r] = "sleeping" /\ everConn[r]) => sleepBase[r] = InitialBackoff

\* C3: the delays without jitter start at the initial backoff, each is between
\* the one before and its double, none is above the cap, and the sleep with
\* jitter is not above the cap either.
C3_BackoffSequence ==
  \A r \in Runners:
    rpc[r] = "sleeping" =>
      /\ SleepFor(sleepBase[r], 0) = sleepBase[r]
      /\ sleepBase[r] <= MaxBackoff
      /\ sleepFor[r] <= MaxBackoff
      /\ sleepFor[r] >= sleepBase[r]
      /\ prevBase[r] = 0 => sleepBase[r] = InitialBackoff
      /\ prevBase[r] # 0 =>
           prevBase[r] <= sleepBase[r] /\ sleepBase[r] <= 2 * prevBase[r]

\* two sleeps in a row at the cap, the second one with jitter cut off
C3_Witness ==
  \E r \in Runners:
    /\ rpc[r] = "sleeping"
    /\ prevBase[r] = MaxBackoff /\ sleepBase[r] = MaxBackoff
    /\ sleepFor[r] = MaxBackoff

\* the brokerage accepted the authorize request sent on socket s
Authorized(s) ==
  \E i \in Ids: reqKind[i] = "authorize" /\ sentOn[i] = s /\ answer[i] = "ok"

\* C4: the event is set only if the authorize request of the current socket
\* was answered without error, and a frame other than authorize goes out only
\* while the event is set.
C4_ConnectedAfterAuth ==
  [][/\ connected' => (ws' # 0 /\ Authorized(ws)')
     /\ \A i \in Ids:
          (sentOn[i] = 0 /\ sentOn'[i] # 0 /\ reqKind'[i] # "authorize") =>
            connected']_vars

\* an ordinary request is on the wire of the authorized socket
C4_Witness ==
  \E c \in Callers:
    /\ cpc[c] = "wait_resp" /\ cop[c] = "request"
    /\ connected /\ sentOn[creq[c]] = ws

InRequest == {"wait_conn", "woken", "wait_resp"}
Left == {"returned", "raised"}

\* C5: every task that is inside request(), waiting for the event, about to
\* send or waiting for its response, leaves it: it returns or raises.
C5_RequestTerminates ==
  \A c \in Callers: (cpc[c] \in InRequest) ~> (cpc[c] \in Left)

\* after a reconnect one caller has left by the request timeout and another
\* one by the connect-wait timeout
C5_Witness ==
  /\ nconn = 2
  /\ \E c \in Callers: cpc[c] = "raised" /\ cerr[c] = "timeout"
  /\ \E c \in Callers: cpc[c] = "raised" /\ cerr[c] = "connect_timeout"

\* C6 (as claimed): the pending-request map holds no entry for the correlation
\* id of a call that has returned or raised.
C6_MapHoldsOnlySuspended ==
  \A c \in Callers:
    (cpc[c] \in Left /\ creq[c] # 0) => creq[c] \notin futMap

\* C7 (as claimed): when the wait for a response times out while the client is
\* Connected, the client stays Connected and no other future changes.
C7_TimeoutIsLocal ==
  [][\A i \in Ids:
       (connected /\ futState[i] = "pending" /\ futState'[i] = "cancelled") =>
         /\ connected'
         /\ \A j \in Ids \ {i}: futState'[j] = futState[j]]_vars

\* C8 (as claimed): stop() on a started client releases every task suspended
\* inside request(), on the event or on its future, with an error.
C8_StopReleasesCallers ==
  [][(~stopEvt /\ stopEvt' /\ runnerTask # 0) =>
       \A c \in Callers:
         cpc[c] \in {"wait_conn", "wait_resp"} => cpc'[c] = "raised"]_vars

\* C9 (as claimed): at any time there is at most one runner task, one open
\* socket, one reader task and one heartbeat task.
C9_OneConnectionLoop ==
  /\ Cardinality({r \in Runners: Alive(r)}) <= 1
  /\ Cardinality({s \in Socks: sockOpen[s]}) <= 1
  /\ Cardinality({t \in Socks: reader[t] = "running"}) <= 1
  /\ Cardinality({t \in Socks: hb[t] = "running"}) <= 1

\* a task of another module that is changing, or failed to change, the
\* activation of name n on its own
Touched(n) ==
  \E c \in Callers:
    /\ cname[c] = n
    /\ \/ cop[c] = "unsubscribe"
       \/ cop[c] = "subscribe" /\ cpc[c] \in {"woken", "wait_resp", "raised"}

\* every id of the subscription-id map was handed out by the brokerage on the
\* current socket
IdsOfCurrentSocket ==
  \A n \in Names:
    subIds[n] # 0 => sentOn[subIds[n]] = ws /\ answer[subIds[n]] = "ok"

\* every registered subscription no other task is touching has an id
AllActivated == \A n \in Keys(subscriptions): subIds[n] # 0 \/ Touched(n)

C11_UnsubscribeDropsName ==
  \A c \in Callers:
    (/\ cop[c] = "unsubscribe" /\ cpc[c] \in Left
     /\ \A d \in Callers: d > c => cop[d] # "subscribe") =>
      cname[c] \notin Keys(subscriptions) /\ subIds[cname[c]] = 0

\* C12 (as claimed): a push frame of any message type that carries the
\* subscription id of a registered subscription is handed to its handler.
C12_EveryPushTypeDispatched ==
  \A t \in Socks, sid \in Ids, mt \in MsgTypes:
    (PushArrives(t, sid) /\ NameOf(sid) \in Keys(subscriptions)) =>
      HandlerFor(sid, mt) = NameOf(sid)

\* C13: the event is never set while the runner awaits the authorize
\* response; an authorize response with an error, or none in time, ends the
\* attempt with the event clear and takes the runner to its backoff sleep,
\* never to its end; the runner gets past authorization only by a response
\* without error; and a sleep is left only for a new connect, or by stop().
C13_AuthFailureRetried ==
  [][\A r \in Runners:
       /\ rpc[r] = "authorizing" =>
            /\ ~connected
            /\ (answer'[rreq[r]] = "error" \/ futState'[rreq[r]] = "cancelled") =>
                 rpc'[r] = "sleeping" /\ ~connected' /\ ~everConn'[r]
            /\ rpc'[r] \in {"resub", "running"} => answer'[rreq[r]] = "ok"
            /\ rpc'[r] = "done" => stopEvt'
       /\ (rpc[r] = "sleeping" /\ rpc'[r] # "sleeping") =>
            rpc'[r] = "connecting" \/ stopEvt']_vars

\* after an authorize response with an error the runner has slept and is
\* connecting again
C13_Witness ==
  \E r \in Runners, i \in Ids:
    /\ reqKind[i] = "authorize" /\ answer[i] = "error"
    /\ rpc[r] = "connecting" /\ sleepBase[r] # 0 /\ ~stopEvt

\* C14 (as claimed): a response with an error body that comes in while the
\* client is Connected leaves it Connected and changes no other future.
C14_ErrorBodyIsData ==
  [][\A i \in Ids:
       (connected /\ answer[i] = "none" /\ answer'[i] = "error") =>
         /\ connected'
         /\ \A j \in Ids \ {i}: futState'[j] = futState[j]]_vars

----
\* Part 2: the trade worker and the intent queue (app/engine.py).

transportVars == <<clientVars, routerVars, runnerVars, taskVars, netVars, callerVars,
                   histVars>>

\* faulty variant: a queue without a size limit
NeverFull(q) == FALSE

\* asyncio.Queue.full() of trade_queue
Full(q) == Len(q) >= QueueMaxSize

\* trade_queue.put_nowait(intent) inside `try ... except asyncio.QueueFull`
PutNowait(q, i) == IF Full(q) THEN q ELSE Append(q, i)

\* trade_queue.task_done() raises ValueError when no task is left to mark
TaskDoneRaises(un) == un <= 0

\* faulty variant: an except block that leaves the row
KeepRow(row) == row

\* the row of trade_id after the except block: repo.delete_trade(trade_id)
DeleteTrade(row) == "deleted"

\* faulty variant: a finally block that does not clear the guard
FinishKeepGuard(i, ev, un) ==
  /\ outcome' = [outcome EXCEPT ![i] = ev]
  /\ intent' = 0 /\ tradeId' = 0
  /\ tradeInFlight' = tradeInFlight
  /\ IF TaskDoneRaises(un)
       THEN wpc' = "raised" /\ unfinished' = un
       ELSE wpc' = "get" /\ unfinished' = un - 1

\* the worker leaves the try statement for intent i having logged ev, with
\* un unfinished tasks counted: `finally` clears the guard and marks the task
\* done; a ValueError of task_done ends the worker task
Finish(i, ev, un) ==
  /\ outcome' = [outcome EXCEPT ![i] = ev]
  /\ intent' = 0 /\ tradeId' = 0
  /\ tradeInFlight' = FALSE
  /\ IF TaskDoneRaises(un)
       THEN wpc' = "raised" /\ unfinished' = un
       ELSE wpc' = "get" /\ unfinished' = un - 1

\* on_candle / run_timer: a signal passed the filters (the kill switch is read
\* first) and its intent is put; QueueFull is caught and logged
PutIntent ==
  /\ nIntents < MaxIntents /\ ~ksEnabled
  /\ LET i == nIntents + 1 IN
     /\ nIntents' = i
     /\ tradeQueue' = PutNowait(tradeQueue, i)
     /\ unfinished' = IF Full(tradeQueue) THEN unfinished ELSE unfinished + 1
     /\ outcome' = [outcome EXCEPT ![i] = IF Full(tradeQueue)
                                            THEN "trade_queue_full_skip"
                                            ELSE "trade_intent_enqueued"]
  /\ UNCHANGED <<restVars, transportVars, configVars, ksEnabled, riskAllowed, workerVars,
                 ledger, sent, contract>>

\* faulty variant: a get that returns the newest intent
GetNewest(q) == Len(q)

\* the position in the queue of the intent trade_queue.get() returns
GetIndex(q) == 1

\* the queue without the intent at position k
RemoveAt(q, k) == [j \in 1..(Len(q) - 1) |-> IF j < k THEN q[j] ELSE q[j + 1]]

\* trade_worker: get returns an intent; the code runs up to its first await
\* or back to the get.  pre: ks.load() and the repository reads go through
\* ("ok") or raise; cached: the multiplier cache has the symbol; allowed:
\* decision.allowed of rf.check
TakeIntent(pre, cached, allowed) ==
  /\ wpc = "get" /\ tradeQueue # <<>>
  /\ LET i == tradeQueue[GetIndex(tradeQueue)]
         first == IF multiplier /\ ~cached THEN "resolve" ELSE "propose"
     IN
     /\ tradeQueue' = RemoveAt(tradeQueue, GetIndex(tradeQueue))
     /\ IF pre = "raise"
          THEN /\ Finish(i, "trade_error", unfinished)
               /\ UNCHANGED <<ledger, sent>>
        ELSE IF ksEnabled
          THEN /\ Finish(i, "killswitch_enabled_skip_trade", unfinished)
               /\ UNCHANGED <<ledger, sent>>
        ELSE IF ~allowed
          THEN /\ Finish(i, "risk_block_skip_trade", unfinished)
               /\ UNCHANGED <<ledger, sent>>
        ELSE IF tradeInFlight
          THEN /\ Finish(i, "trade_in_flight_skip", unfinished)
               /\ UNCHANGED <<ledger, sent>>
        ELSE IF dryRun
          THEN \* clear and task_done inside the try block, then `continue`
               \* a ValueError of this task_done is caught and logged
               /\ IF TaskDoneRaises(unfinished)
                    THEN Finish(i, "trade_error: task_done", unfinished)
                    ELSE Finish(i, "dry_run_skip", unfinished - 1)
               /\ UNCHANGED <<ledger, sent>>
          ELSE /\ tradeInFlight' = TRUE
               /\ intent' = i /\ tradeId' = i
               /\ ledger' = [ledger EXCEPT ![i] = "open"]
               /\ outcome' = [outcome EXCEPT ![i] = "trade_open"]
               /\ sent' = [sent EXCEPT ![i] = {first}]
               /\ wpc' = first
               /\ UNCHANGED unfinished
  /\ UNCHANGED <<transportVars, configVars, ksEnabled, riskAllowed, nIntents, contract>>

\* the same, with the answer of the firewall left open
WorkerTake(pre, cached) ==
  TakeIntent(pre, cached, riskAllowed) /\ UNCHANGED restVars

\* the except block with a trade_id: delete the row, log trade_error; finally
Rollback(i) ==
  /\ ledger' = [ledger EXCEPT ![i] = DeleteTrade(@)]
  /\ Finish(i, "trade_error", unfinished)

\* get_allowed_multipliers is over (it returns [] on any error): the
\* executor sends the proposal request
WorkerResolved ==
  /\ wpc = "resolve"
  /\ wpc' = "propose"
  /\ sent' = [sent EXCEPT ![intent] = @ \cup {"propose"}]
  /\ UNCHANGED <<restVars, transportVars, configVars, ksEnabled, riskAllowed, queueVars,
                 intent, tradeId, tradeInFlight, ledger, contract, outcome>>

\* the proposal request is over: ok, or an error body, a missing id, a
\* timeout or a disconnect, which all raise
WorkerProposed(ok) ==
  /\ wpc = "propose"
  /\ IF ok
       THEN /\ wpc' = "buy"
            /\ sent' = [sent EXCEPT ![intent] = @ \cup {"buy"}]
            /\ UNCHANGED <<intent, tradeId, tradeInFlight, ledger, outcome, unfinished>>
       ELSE Rollback(intent) /\ UNCHANGED sent
  /\ UNCHANGED <<restVars, transportVars, configVars, ksEnabled, riskAllowed, tradeQueue,
                 nIntents, contract>>

\* the buy request is over: a contract id, or it raises
WorkerBought(ok) ==
  /\ wpc = "buy"
  /\ IF ok
       THEN /\ wpc' = "poll"
            /\ contract' = [contract EXCEPT ![intent] = TRUE]
            /\ sent' = [sent EXCEPT ![intent] = @ \cup {"proposal_open_contract"}]
            /\ UNCHANGED <<intent, tradeId, tradeInFlight, ledger, outcome, unfinished>>
       ELSE Rollback(intent) /\ UNCHANGED <<sent, contract>>
  /\ UNCHANGED <<restVars, transportVars, configVars, ksEnabled, riskAllowed, tradeQueue,
                 nIntents>>

\* the status poll ends: the contract is sold and the worker finalizes (fin:
\* all goes through, close_trade raises, or a later statement raises), or the
\* poll raises (error body, timeout, disconnect, contract_wait_timeout)
PollEnds(sold, fin) ==
  /\ wpc = "poll"
  /\ IF sold /\ fin = "ok"
       THEN /\ ledger' = [ledger EXCEPT ![intent] = "closed"]
            /\ Finish(intent, "trade_close", unfinished)
       ELSE Rollback(intent)
  /\ UNCHANGED <<transportVars, configVars, ksEnabled, riskAllowed, tradeQueue,
                 nIntents, sent, contract>>

\* the same, with the balance and the columns of the row left out
WorkerPolled(sold, fin) == PollEnds(sold, fin) /\ UNCHANGED restVars

\* run_engine returns and asyncio.run cancels the worker task: CancelledError
\* is not an Exception, only the finally block runs when inside the try
WorkerCancelled ==
  /\ wpc \in {"get", "resolve", "propose", "buy", "poll"}
  /\ wpc' = "cancelled"
  /\ intent' = 0 /\ tradeId' = 0
  /\ tradeInFlight' = FALSE
  /\ unfinished' = IF wpc = "get" \/ TaskDoneRaises(unfinished)
                     THEN unfinished ELSE unfinished - 1
  /\ UNCHANGED <<restVars, transportVars, configVars, ksEnabled, riskAllowed, tradeQueue,
                 nIntents, tradeVars>>

\* the operator enables or disables the kill switch (data/killswitch.json)
KillSwitchSet(b) ==
  /\ b # ksEnabled
  /\ ksEnabled' = b
  /\ UNCHANGED <<restVars, transportVars, configVars, riskAllowed, queueVars, workerVars, tradeVars>>

\* balance, ledger counts or the clock change what the risk firewall answers
RiskStateChanges ==
  /\ riskAllowed' = ~riskAllowed
  /\ UNCHANGED <<restVars, transportVars, configVars, ksEnabled, queueVars, workerVars, tradeVars>>

InitWorker == InitClient /\ failsLeft = 0 /\ InitEngine /\ RestIdle

NextWorker ==
  \/ PutIntent
  \/ \E pre \in {"ok", "raise"}, cached \in BOOLEAN: WorkerTake(pre, cached)
  \/ WorkerResolved
  \/ \E ok \in BOOLEAN: WorkerProposed(ok)
  \/ \E ok \in BOOLEAN: WorkerBought(ok)
  \/ \E sold \in BOOLEAN, fin \in {"ok", "close_raises", "later_raises"}:
       WorkerPolled(sold, fin)
  \/ WorkerCancelled
  \/ \E b \in BOOLEAN: KillSwitchSet(b)
  \/ RiskStateChanges

SpecWorker == InitWorker /\ [][NextWorker]_vars

----
\* Claims about the trade worker and the intent queue.

\* C15: the queue never holds more than QueueMaxSize intents, and a put on a
\* full queue drops the new intent with a logged skip: the queue, the counter
\* of unfinished tasks and the worker are as before.
C15_QueueBounded ==
  [][/\ Len(tradeQueue') <= QueueMaxSize
     /\ (nIntents' # nIntents /\ Len(tradeQueue) = QueueMaxSize) =>
          /\ tradeQueue' = tradeQueue
          /\ unfinished' = unfinished
          /\ outcome'[nIntents'] = "trade_queue_full_skip"
          /\ UNCHANGED <<workerVars, ledger, sent>>]_vars

\* an intent was dropped while three intents wait for the worker
C15_Witness ==
  /\ Len(tradeQueue) = QueueMaxSize
  /\ wpc = "get"
  /\ \E i \in Intents: outcome[i] = "trade_queue_full_skip"

\* the log events with which the worker is through with an intent
Finished ==
  {"killswitch_enabled_skip_trade", "risk_block_skip_trade", "trade_in_flight_skip",
   "dry_run_skip", "trade_close", "trade_error", "trade_error: task_done"}

\* C16 (as claimed): after finishing an intent, whatever the way, the worker
\* is back at the get of the queue.
C16_WorkerReturnsToQueue ==
  [][\A i \in Intents:
       (outcome'[i] # outcome[i] /\ outcome'[i] \in Finished) => wpc' = "get"]_vars

InTrade == {"resolve", "propose", "buy", "poll"}

C18_SingleFlight ==
  [][/\ tradeInFlight' <=> wpc' \in InTrade
     /\ tradeInFlight' <=> tradeId' # 0
     /\ tradeInFlight' => ledger'[tradeId'] = "open"
     /\ Cardinality({i \in Intents: ledger'[i] = "open"}) <= 1
     /\ tradeInFlight => Len(tradeQueue') >= Len(tradeQueue)
     /\ \A i \in Intents: sent'[i] # sent[i] => tradeInFlight' /\ tradeId' = i]_vars

\* a second trade is in execution after the first was closed, others waiting
C18_Witness ==
  /\ tradeInFlight /\ wpc = "buy" /\ tradeQueue # <<>>
  /\ \E i \in Intents: ledger[i] = "closed" /\ i # tradeId

\* the worker takes the oldest intent from the queue in this step
Takes == wpc = "get" /\ tradeQueue # <<>> /\ tradeQueue' = Tail(tradeQueue)

\* C19 (as claimed): when the worker takes an intent while the kill switch is
\* enabled or the risk firewall rejects, no request is sent, no row is
\* written, and the worker goes on to the next get.
C19_RecheckBeforeTrade ==
  [][(Takes /\ (ksEnabled \/ ~riskAllowed)) =>
       /\ sent' = sent /\ ledger' = ledger
       /\ wpc' = "get"]_vars

\* C20 (as claimed): in dry-run mode no request is sent and no row written,
\* the guard is clear, and an intent that gets past the kill switch and the
\* firewall produces the dry-run event only.
C20_DryRunTouchesNothing ==
  dryRun =>
    /\ ~tradeInFlight
    /\ \A i \in Intents:
         /\ sent[i] = {} /\ ledger[i] = "none"
         /\ outcome[i] # "trade_error: task_done"

\* the intents that were put on the queue and not yet taken from it
Waiting == {i \in Intents: outcome[i] = "trade_intent_enqueued"}

\* C21: the intent the worker takes is the one that was put on the queue
\* first among those waiting, and at that moment nothing of the previous
\* intent is left: the guard is clear, the worker holds no trade id and no
\* row is open.  The queue holds the waiting intents in the order of the puts.
C21_FifoOneAtATime ==
  [][/\ (wpc = "get" /\ Len(tradeQueue') < Len(tradeQueue)) =>
          /\ \E i \in Waiting:
               /\ \A j \in Waiting: i <= j
               /\ outcome'[i] # outcome[i]
               /\ \A j \in Intents \ {i}: outcome'[j] = outcome[j]
          /\ ~tradeInFlight /\ tradeId = 0
          /\ \A j \in Intents: ledger[j] # "open"
     /\ \A a, b \in 1..Len(tradeQueue'): a < b => tradeQueue'[a] < tradeQueue'[b]
     /\ Waiting' = {tradeQueue'[a]: a \in 1..Len(tradeQueue')}]_vars

\* the worker is at the get after a closed trade, with two intents waiting
C21_Witness ==
  /\ wpc = "get" /\ Len(tradeQueue) = 2
  /\ \E i \in Intents: ledger[i] = "closed"

\* C32 (as claimed): once buy has returned a contract id for an intent, the
\* ledger keeps a row for its trade, open or closed, whatever happens later.
C32_BoughtTradeKeepsRow ==
  \A i \in Intents: contract[i] => ledger[i] \in {"open", "closed"}

\* C38 (as claimed): marking an intent done never raises, and the counter of
\* unfinished tasks is the number of intents waiting in the queue plus the
\* one the worker is executing.
C38_DoneExactlyOnce ==
  /\ wpc # "raised"
  /\ \A i \in Intents: outcome[i] # "trade_error: task_done"
  /\ unfinished = Len(tradeQueue) + (IF wpc \in InTrade THEN 1 ELSE 0)

----
\* Part 3: multi-instrument mode, the builders' callbacks and run_timer.

\* on_tick_multi -> CandleBuilder.update_with_tick -> on_candle_close_multi:
\* a tick of symbol s in the current minute.  The first tick opens a candle;
\* a tick of a later bucket closes the open candle, and the callback stores
\* it in last_closed and its indicators in last_indicators.  sc: what the
\* strategy and the filters will make of that candle.
TickMulti(s, sc) ==
  /\ curBucket[s] # now
  /\ curBucket' = [curBucket EXCEPT ![s] = now]
  /\ IF curBucket[s] = 0
       THEN UNCHANGED <<lastClosed, sigScore>>
       ELSE /\ lastClosed' = [lastClosed EXCEPT ![s] = curBucket[s]]
            /\ sigScore' = [sigScore EXCEPT ![s] = sc]
  /\ UNCHANGED <<now, target, lastProcessed, intentSym, intentMin>>
  /\ UNCHANGED <<transportVars, engVars, candleVars, riskVars, sizerVars, scorerVars, indVars, htfVars, bookVars>>

\* the wall clock passes a minute boundary
ClockMinute ==
  /\ now < MaxMinute
  /\ now' = now + 1
  /\ UNCHANGED <<target, lastProcessed, curBucket, lastClosed, sigScore,
                 intentSym, intentMin>>
  /\ UNCHANGED <<transportVars, engVars, candleVars, riskVars, sizerVars, scorerVars, indVars, htfVars, bookVars>>

\* faulty variant: a timer without the guard on the minute
NeverProcessed(last, prev) == FALSE

\* run_timer: if last_processed_minute == prev_minute: continue
AlreadyProcessed(last, prev) == last = prev

\* run_timer: the symbols appended to candidates for prev_minute
Candidates(prev) == {s \in Symbols: lastClosed[s] = prev /\ sigScore[s] > 0}

\* faulty variant: the first candidate whatever its score
FirstOf(cands) == CHOOSE s \in cands: \A t \in cands: s <= t

\* run_timer: max(candidates, key=lambda x: x[1].score), the first of the
\* maxima in the order of active_symbols
BestOf(cands) ==
  CHOOSE s \in cands:
    /\ \A t \in cands: sigScore[t] <= sigScore[s]
    /\ \A t \in cands: sigScore[t] = sigScore[s] => s <= t

\* run_timer: one turn of the loop, from the end of the sleep to the next
\* sleep.  The sleep is computed from the wall clock and may end a moment
\* before the boundary it aims at.  sized: sizer.compute allows a stake.
TimerWake(sized) ==
  /\ nIntents < MaxIntents
  /\ now >= target - 1
  /\ target' = now + 1
  /\ LET prev == now - 1
         cands == Candidates(prev)
         i == nIntents + 1
     IN
     IF AlreadyProcessed(lastProcessed, prev)
       THEN UNCHANGED <<lastProcessed, intentSym, intentMin, queueVars, outcome>>
     ELSE
       /\ lastProcessed' = prev
       /\ IF cands = {} \/ ksEnabled \/ ~sized
            THEN UNCHANGED <<intentSym, intentMin, queueVars, outcome>>
            ELSE /\ nIntents' = i
                 /\ intentSym' = [intentSym EXCEPT ![i] = BestOf(cands)]
                 /\ intentMin' = [intentMin EXCEPT ![i] = prev]
                 /\ tradeQueue' = PutNowait(tradeQueue, i)
                 /\ unfinished' = IF Full(tradeQueue) THEN unfinished ELSE unfinished + 1
                 /\ outcome' = [outcome EXCEPT ![i] = IF Full(tradeQueue)
                                                        THEN "trade_queue_full_skip"
                                                        ELSE "trade_intent_enqueued"]
  /\ UNCHANGED <<now, curBucket, lastClosed, sigScore, candleVars, riskVars, sizerVars,
                 scorerVars, indVars, htfVars, bookVars>>
  /\ UNCHANGED <<transportVars, configVars, ksEnabled, riskAllowed, workerVars,
                 ledger, sent, contract>>

InitMulti == InitClient /\ failsLeft = 0 /\ EngineIdle /\ RestIdle

NextMulti ==
  \/ \E s \in Symbols, sc \in 0..MaxScore: TickMulti(s, sc)
  \/ ClockMinute
  \/ \E sized \in BOOLEAN: TimerWake(sized)
  \/ \E b \in BOOLEAN: KillSwitchSet(b)

SpecMulti == InitMulti /\ [][NextMulti]_vars

\* C22: a step puts at most one intent; the intent the timer puts is for the
\* minute before the current one, which it had not processed before and for
\* which no earlier intent was chosen, and its symbol is a candidate of that
\* minute with the highest score among the candidates; the minute processed
\* only moves forward; a step that closes a candle puts nothing.
C22_BestSignalOncePerMinute ==
  [][/\ nIntents' <= nIntents + 1
     /\ Len(tradeQueue') <= Len(tradeQueue) + 1
     /\ nIntents' # nIntents =>
          /\ intentMin'[nIntents'] = now - 1
          /\ lastProcessed # now - 1 /\ lastProcessed' = now - 1
          /\ \A j \in 1..nIntents: intentMin[j] # now - 1
          /\ intentSym'[nIntents'] \in Candidates(now - 1)
          /\ \A t \in Candidates(now - 1): sigScore[t] <= sigScore[intentSym'[nIntents']]
     /\ lastProcessed' # lastProcessed => lastProcessed' > lastProcessed
     /\ lastClosed' # lastClosed => UNCHANGED <<queueVars, intentSym, intentMin>>]_vars

\* the timer chose the second symbol, which had the higher of two scores
C22_Witness ==
  \E i \in Intents:
    /\ intentSym[i] = 2 /\ intentMin[i] = lastProcessed
    /\ lastClosed[1] = intentMin[i] /\ lastClosed[2] = intentMin[i]
    /\ 0 < sigScore[1] /\ sigScore[1] < sigScore[2]

----
\* Part 4: CandleBuilder.

\* faulty variant: a high that is never raised
OldHigh(h, p) == h

\* update_with_tick: c.high = max(c.high, tick.price)
NewHigh(h, p) == IF p > h THEN p ELSE h

\* faulty variant: a low that is never lowered
OldLow(l, p) == l

\* update_with_tick: c.low = min(c.low, tick.price)
NewLow(l, p) == IF p < l THEN p ELSE l

\* update_with_tick: Candle(open_time, open = high = low = close = price, volume = 1)
Seed(b, p) == [t |-> b, o |-> p, h |-> p, l |-> p, c |-> p, v |-> 1]

\* update_with_tick: the same-candle branch
Fold(cd, p) ==
  [cd EXCEPT !.c = p, !.h = NewHigh(cd.h, p), !.l = NewLow(cd.l, p), !.v = cd.v + 1]

\* faulty variant: a callback exception that leaves update_with_tick
Unguarded(cb) == cb

\* update_with_tick: try: on_candle_closed(closed) except Exception: pass
Guarded(cb) == "ok"

\* update_with_tick: _current after a tick of bucket b and price p, when the
\* call gets past the callback ("ok") or is left by its exception
CurrentAfter(cd, b, p, cb) ==
  IF cd = NoCandle THEN Seed(b, p)
  ELSE IF b > cd.t THEN (IF cb = "ok" THEN Seed(b, p) ELSE cd)
  ELSE Fold(cd, p)

\* update_with_tick(tick) with tick = (sym, epoch in bucket b, price p);
\* cb: what on_candle_closed does if it is called
UpdateWithTick(sym, b, p, cb) ==
  /\ nTicks < MaxTicks
  /\ nTicks' = nTicks + 1
  /\ tick' = <<sym, b, p>>
  /\ IF sym # 1
       THEN /\ ret' = NoCandle /\ callbackRaised' = FALSE
            /\ UNCHANGED <<current, emitted, delivered, seen, inOrder, twin>>
       ELSE
         LET closes == current # NoCandle /\ b > current.t
             through == ~closes \/ Guarded(cb) = "ok"
         IN
         /\ seen' = [seen EXCEPT ![b] = @ + 1]
         /\ inOrder' = (inOrder /\ (current = NoCandle \/ b >= current.t))
         /\ current' = CurrentAfter(current, b, p, Guarded(cb))
         /\ twin' = CurrentAfter(twin, b, p, "ok")
         /\ delivered' = IF closes THEN Append(delivered, current) ELSE delivered
         /\ callbackRaised' = (closes /\ cb = "raise")
         /\ ret' = IF closes /\ through THEN current ELSE NoCandle
         /\ emitted' = IF closes /\ through THEN Append(emitted, current) ELSE emitted
  /\ UNCHANGED <<transportVars, engVars, timerVars, riskVars, sizerVars, scorerVars, indVars, htfVars, bookVars>>

InitBuilder == InitClient /\ failsLeft = 0 /\ EngineIdle /\ RestIdle

NextBuilder ==
  \E sym \in Symbols, b \in Buckets, p \in Prices, cb \in {"ok", "raise"}:
    UpdateWithTick(sym, b, p, cb)

SpecBuilder == InitBuilder /\ [][NextBuilder]_vars

\* every candle returned so far is well formed, counts the ticks observed in
\* its bucket, and is the only one of its bucket; every bucket with ticks
\* that the builder has left has its candle
OnePerBucket ==
  /\ \A k \in 1..Len(emitted):
       LET cd == emitted[k] IN
       /\ cd.l <= cd.o /\ cd.o <= cd.h
       /\ cd.l <= cd.c /\ cd.c <= cd.h
       /\ cd.v = seen[cd.t]
       /\ \A m \in 1..Len(emitted): emitted[m].t = cd.t => m = k
  /\ \A b \in Buckets:
       (seen[b] > 0 /\ current.t # b) => \E k \in 1..Len(emitted): emitted[k].t = b

\* C23 (as claimed): whatever ticks were fed, one candle per completed bucket,
\* each well formed and with the volume of its bucket.
C23_OneCandlePerBucket == OnePerBucket

\* C23 (amended): the same when no tick was of an earlier bucket than the
\* candle open at its arrival.
C23_OneCandlePerBucketInOrder == inOrder => OnePerBucket

\* two candles were returned, the first of three ticks with a low under and
\* a high over its open
C23_Witness ==
  /\ inOrder /\ Len(emitted) = 2
  /\ emitted[1].v = 3 /\ emitted[1].l < emitted[1].o /\ emitted[1].o < emitted[1].h

\* C24: a call in which on_candle_closed raised returns the candle it closed,
\* which was handed to the callback, and leaves the new candle seeded from the
\* tick; at any time the builder holds the candle it would hold had no
\* callback ever raised, and has returned every candle it handed over.
C24_CallbackFailureIsolated ==
  [][/\ callbackRaised' =>
          /\ ret' = current /\ ret' # NoCandle
          /\ delivered' = Append(delivered, current)
          /\ emitted' = Append(emitted, current)
          /\ \E b \in Buckets, p \in Prices: current' = Seed(b, p) /\ b > current.t
     /\ current' = twin'
     /\ emitted' = delivered']_vars

\* the callback raised for the second candle: the call returned the candle
\* and the builder holds the new one
C24_Witness ==
  /\ callbackRaised /\ Len(emitted) = 2
  /\ ret = emitted[2] /\ ret.v = 2
  /\ current.t > ret.t /\ current.v = 1

\* the last call was for a tick of the builder's symbol whose bucket is
\* earlier than that of the candle that was open
LateTick == tick'[1] = 1 /\ nTicks' # nTicks /\ current # NoCandle /\ tick'[2] < current.t

\* C36: a tick of an earlier bucket than the open candle's is folded into
\* the open candle: close becomes its price, high and low are extended to
\* it, volume grows by one, open time and open price stay, and no candle is
\* closed, returned or handed to the callback.
C36_LateTickFolded ==
  [][LateTick =>
       /\ current'.c = tick'[3]
       /\ current'.h = (IF tick'[3] > current.h THEN tick'[3] ELSE current.h)
       /\ current'.l = (IF tick'[3] < current.l THEN tick'[3] ELSE current.l)
       /\ current'.v = current.v + 1
       /\ current'.t = current.t /\ current'.o = current.o
       /\ ret' = NoCandle
       /\ emitted' = emitted /\ delivered' = delivered]_vars

\* the last tick was of an earlier bucket and below everything seen in the
\* open candle: it is the close and the new low of the candle, which closed
\* no candle with it
C36_Witness ==
  /\ tick[1] = 1 /\ current # NoCandle /\ tick[2] < current.t
  /\ current.c = tick[3] /\ current.l = tick[3] /\ current.l < current.o
  /\ current.v = 2 /\ ret = NoCandle /\ ~inOrder

----
\* Part 5: RiskFirewall.  Money is in whole units, ratios are compared by
\* cross-multiplication, times are in half-seconds.

\* faulty variant: a drawdown limit that must be exceeded
DrawdownExceeded(peak, equity) == (peak - equity) * 100 > MaxDrawdownPct * peak

\* check: dd = (peak_equity - equity) / peak_equity; dd >= max_drawdown_total
DrawdownReached(peak, equity) == (peak - equity) * 100 >= MaxDrawdownPct * peak

\* check: daily_loss = (start - equity) / max(start, 1e-9), for start > 0;
\* daily_loss >= max_loss_daily
DailyLossReached(start, equity) == (start - equity) * 100 >= MaxLossDailyPct * start

\* reset_daily_if_needed: _daily_start_equity after the call
StartAfterReset(start, equity, newDay) ==
  IF newDay \/ start = 0 THEN equity ELSE start

\* int(): the whole seconds of d half-seconds, truncated towards zero
IntSec(d) == IF d >= 0 THEN d \div 2 ELSE 0 - ((0 - d) \div 2)

\* faulty variant: a cooldown counted from the check, not from the last close
FullCooldown(last, ago) == CooldownMinutes * 60

\* check: remaining = max(0, int(cooldown_total - elapsed)); a date that does
\* not parse counts as now
Remaining(last, ago) ==
  LET elapsed == IF last = "bad" THEN 0 ELSE ago
      whole == IntSec(CooldownMinutes * 120 - elapsed)
  IN IF whole > 0 THEN whole ELSE 0

\* check, after reset_daily_if_needed left start as the day's first equity
Decide(snap, start) ==
  IF snap.peak <= 0 THEN Decision(FALSE, "invalid_peak_equity", 0)
  ELSE IF DrawdownReached(snap.peak, snap.equity)
    THEN Decision(FALSE, "max_drawdown_total_reached", 0)
  ELSE IF DailyLossReached(start, snap.equity)
    THEN Decision(FALSE, "max_loss_daily_reached", 0)
  ELSE IF snap.trades >= MaxTradesDaily
    THEN Decision(FALSE, "max_trades_daily_reached", 0)
  ELSE IF snap.losses >= MaxConsecutiveLosses
    THEN IF snap.last # "none" /\ Remaining(snap.last, snap.ago) > 0
           THEN Decision(FALSE, "cooldown_after_consecutive_losses",
                         Remaining(snap.last, snap.ago))
           ELSE Decision(FALSE, "max_consecutive_losses_reached", 0)
  ELSE Decision(TRUE, "ok", 0)

\* the snapshots the checks are run on
Snapshots ==
  [peak: {0, 1000}, equity: {880, 900, 950, 1000},
   trades: {0, MaxTradesDaily}, losses: {0, MaxConsecutiveLosses, MaxConsecutiveLosses + 1},
   last: {"none", "bad"}, ago: {0}]
  \cup
  [peak: {0, 1000}, equity: {880, 900, 950, 1000},
   trades: {0, MaxTradesDaily}, losses: {0, MaxConsecutiveLosses, MaxConsecutiveLosses + 1},
   last: {"iso"},
   ago: {1200, 1201, CooldownMinutes * 120 - 1, CooldownMinutes * 120, 4800}]

\* RiskFirewall.check(snapshot); newDay: the UTC date changed since the last call
RiskCheck(snap, newDay) ==
  /\ nChecks < MaxChecks
  /\ nChecks' = nChecks + 1
  /\ riskSnap' = snap
  /\ dailyStart' = StartAfterReset(dailyStart, snap.equity, newDay)
  /\ riskOut' = Decide(snap, dailyStart')
  /\ UNCHANGED <<transportVars, engVars, timerVars, candleVars, sizerVars, scorerVars, indVars, htfVars, bookVars>>

NextRisk == \E snap \in Snapshots, newDay \in BOOLEAN: RiskCheck(snap, newDay)

InitFirewall == InitClient /\ failsLeft = 0 /\ EngineIdle /\ RestIdle

SpecRisk == InitFirewall /\ [][NextRisk]_vars

\* the reasons of the five conditions that hold for the last snapshot, in
\* the order of the check
Failing ==
  LET sn == riskSnap IN
  IF sn.peak <= 0 THEN <<"invalid_peak_equity">>
  ELSE
    SelectSeq(<<"max_drawdown_total_reached", "max_loss_daily_reached",
                "max_trades_daily_reached", "losses">>,
              LAMBDA why:
                \/ why = "max_drawdown_total_reached"
                     /\ (sn.peak - sn.equity) * 100 >= MaxDrawdownPct * sn.peak
                \/ why = "max_loss_daily_reached"
                     /\ (dailyStart - sn.equity) * 100 >= MaxLossDailyPct * dailyStart
                \/ why = "max_trades_daily_reached" /\ sn.trades >= MaxTradesDaily
                \/ why = "losses" /\ sn.losses >= MaxConsecutiveLosses)

LossReasons == {"cooldown_after_consecutive_losses", "max_consecutive_losses_reached"}

\* C25: after a check the decision allows exactly when none of the five
\* conditions holds for the snapshot, and otherwise carries the reason of the
\* first that holds in the order peak, drawdown, daily loss, trades, losses;
\* peak 1000 with equity 880 is rejected for the drawdown.
C25_FirstFailingWins ==
  nChecks > 0 =>
    /\ riskOut.allowed <=> Failing = <<>>
    /\ riskOut.allowed => riskOut.reason = "ok"
    /\ Failing # <<>> =>
         IF Head(Failing) = "losses"
           THEN riskOut.reason \in LossReasons
           ELSE riskOut.reason = Head(Failing)
    /\ (riskSnap.peak = 1000 /\ riskSnap.equity = 880) =>
         ~riskOut.allowed /\ riskOut.reason = "max_drawdown_total_reached"

\* the drawdown is reported though the trades and the losses are at their
\* limits too
C25_Witness ==
  /\ nChecks > 0 /\ Len(Failing) >= 3
  /\ riskSnap.peak = 1000 /\ riskSnap.equity = 880
  /\ riskOut.reason = "max_drawdown_total_reached"

\* the losses are the first condition that holds for the last snapshot
LossesDecide == nChecks > 0 /\ Failing # <<>> /\ Head(Failing) = "losses"

\* no decision allows once the losses are at the limit, however far over it
NeverAllowedOver ==
  (nChecks > 0 /\ riskSnap.losses >= MaxConsecutiveLosses) =>
     /\ ~riskOut.allowed
     /\ \A k \in riskSnap.losses..(MaxConsecutiveLosses + 2):
          ~Decide([riskSnap EXCEPT !.losses = k], dailyStart).allowed

\* half-seconds of the cooldown left at the last check
CooldownLeft == CooldownMinutes * 120 - riskSnap.ago

\* C26 (as claimed): at or over the limit of consecutive losses the check
\* rejects, also with more losses; with a last close whose cooldown has time
\* left the decision reports that time, and otherwise the generic reason
\* with remaining 0.
C26_CooldownRemaining ==
  /\ NeverAllowedOver
  /\ (LossesDecide /\ riskSnap.last # "bad") =>
       IF riskSnap.last = "iso" /\ CooldownLeft > 0
         THEN /\ riskOut.reason = "cooldown_after_consecutive_losses"
              /\ riskOut.remaining * 2 = CooldownLeft
         ELSE /\ riskOut.reason = "max_consecutive_losses_reached"
              /\ riskOut.remaining = 0

\* C26 (amended): the same with the time left counted in whole seconds,
\* fractions dropped: the cooldown is reported when at least one whole second
\* is left.
C26_CooldownWholeSeconds ==
  /\ NeverAllowedOver
  /\ (LossesDecide /\ riskSnap.last # "bad") =>
       IF riskSnap.last = "iso" /\ CooldownLeft >= 2
         THEN /\ riskOut.reason = "cooldown_after_consecutive_losses"
              /\ riskOut.remaining = CooldownLeft \div 2
         ELSE /\ riskOut.reason = "max_consecutive_losses_reached"
              /\ riskOut.remaining = 0

\* ten minutes after the last close 1200 of the 1800 seconds are left
C26_Witness ==
  /\ LossesDecide /\ riskSnap.last = "iso" /\ riskSnap.ago = 1200
  /\ riskSnap.losses > MaxConsecutiveLosses
  /\ riskOut.reason = "cooldown_after_consecutive_losses"
  /\ riskOut.remaining = CooldownMinutes * 60 - 600

----
\* Part 6: PositionSizer.  Stakes and balances are in thousandths of a unit,
\* scores in hundredths, risk percentages in thousandths.

\* round(x, 2) of the fraction n / d of thousandths: the nearest multiple of
\* ten thousandths, a tie going to the even hundredth
Round2(n, d) ==
  LET lo == (n \div (10 * d)) * 10
      twice == 2 * (n - lo * d)
  IN IF twice < 10 * d THEN lo
     ELSE IF twice > 10 * d THEN lo + 10
     ELSE IF (lo \div 10) % 2 = 0 THEN lo ELSE lo + 10

\* compute: the numerator of risk_pct over the denominator ScoreHigh - ScoreMin
RiskPct(score) ==
  LET den == ScoreHigh - ScoreMin
      raw == IF score >= ScoreHigh THEN RiskHigh * den
             ELSE RiskBase * den + (score - ScoreMin) * (RiskHigh - RiskBase)
  IN Min(raw, RiskCap * den)

\* compute(balance, score) of a sizer with stakes cfg
Compute(cfg, balance, score) ==
  IF balance <= 0
    THEN [allowed |-> FALSE, stake |-> 0, riskNum |-> 0, riskDen |-> 1,
          reason |-> "invalid_balance"]
  ELSE IF score < ScoreMin
    THEN [allowed |-> FALSE, stake |-> 0, riskNum |-> 0, riskDen |-> 1,
          reason |-> "score_too_low"]
  ELSE
    LET den == (ScoreHigh - ScoreMin) * 1000
        num == balance * RiskPct(score)
        \* max(min_stake, min(max_stake, stake)) as a fraction over den
        capped == IF cfg.max * den < num THEN cfg.max * den ELSE num
        clamped == IF cfg.min * den > capped THEN cfg.min * den ELSE capped
    IN [allowed |-> TRUE, stake |-> Round2(clamped, den),
        riskNum |-> RiskPct(score), riskDen |-> ScoreHigh - ScoreMin,
        reason |-> "ok"]

\* stakes a configuration may hold: whole hundredths, and finer
SizerConfigs == [min: {1000, 1004}, max: {10000, 10006}]

SizerInputs ==
  [balance: {0 - 1000, 0, 150000, 1000000, 1300000, 5000000},
   score: {50, ScoreMin, 65, ScoreHigh, 90}]

InitSizer ==
  /\ InitClient /\ failsLeft = 0 /\ EngineIdle
  /\ InitTimer /\ InitCandles /\ InitRisk /\ ScorerIdle /\ InitIndicators /\ InitHtf /\ InitBook
  /\ sizerCfg \in SizerConfigs
  /\ sizeIn \in SizerInputs
  /\ sizeOut = NoSize

\* sizer.compute(balance = ..., score = ...)
SizerCompute ==
  /\ sizeOut = NoSize
  /\ sizeOut' = Compute(sizerCfg, sizeIn.balance, sizeIn.score)
  /\ UNCHANGED <<sizerCfg, sizeIn>>
  /\ UNCHANGED <<transportVars, engVars, timerVars, candleVars, riskVars, scorerVars, indVars, htfVars, bookVars>>

NextSizer == SizerCompute

SpecSizer == InitSizer /\ [][NextSizer]_vars

\* C27 (as claimed): the decision is refused exactly for a balance that is
\* not positive or a score under the minimum; an allowed stake lies between
\* the configured minimum and maximum, and the risk percentage used is not
\* over the configured maximum.
C27_StakeWithinLimits ==
  sizeOut # NoSize =>
    /\ ~sizeOut.allowed <=> (sizeIn.balance <= 0 \/ sizeIn.score < ScoreMin)
    /\ sizeOut.allowed =>
         /\ sizerCfg.min <= sizeOut.stake /\ sizeOut.stake <= sizerCfg.max
         /\ sizeOut.riskNum <= RiskCap * sizeOut.riskDen

----
\* Part 7: TrendPullbackStrategy.generate.  Prices, averages and the ATR are
\* whole numbers, the RSI is in tenths, ratios are compared by
\* cross-multiplication.

Abs(x) == IF x < 0 THEN 0 - x ELSE x

\* faulty variant: no skip at the overbought level
NeverOverbought(rsi) == FALSE

\* generate: rsi >= self.rsi_overbought
Overbought(rsi) == rsi >= RsiOverbought

\* generate: rsi <= self.rsi_oversold
Oversold(rsi) == rsi <= RsiOversold

\* faulty variant: a trend strength without the cap at 1
UncappedTrend(spread, price) == (spread * MinSpreadDiv) \div 4

\* generate: trend_strength = min(1.0, ema_spread_pct / (min_ema_spread_pct * 4)),
\* as a numerator over the price
TrendStrength(spread, price) == Min(price, (spread * MinSpreadDiv) \div 4)

\* generate: vol_strength = min(1.0, atr_pct / (min_atr_pct * 4)), over the price
VolStrength(atr, price) == Min(price, (atr * MinAtrDiv) \div 4)

\* generate: rsi_score = max(0, 1 - |rsi - zone_mid| / zone_half), as a
\* numerator over hi - lo
RsiScore(rsi, lo, hi) ==
  LET away == Abs(2 * rsi - (lo + hi)) IN
  IF away > hi - lo THEN 0 ELSE (hi - lo) - away

\* generate(candle, ind)
Generate(in) ==
  IF ~in.present THEN Signal("NONE", 0, 1, "indicators_not_ready")
  ELSE IF in.price <= 0 THEN Signal("NONE", 0, 1, "invalid_price")
  ELSE IF in.fast = in.slow THEN Signal("NONE", 0, 1, "no_trend")
  ELSE IF in.atr * MinAtrDiv < in.price THEN Signal("NONE", 0, 1, "atr_too_low")
  ELSE IF Abs(in.fast - in.slow) * MinSpreadDiv < in.price
    THEN Signal("NONE", 0, 1, "ema_spread_too_low")
  ELSE IF Overbought(in.rsi) /\ in.fast > in.slow
    THEN Signal("NONE", 0, 1, "rsi_overbought_skip")
  ELSE IF Oversold(in.rsi) /\ in.fast < in.slow
    THEN Signal("NONE", 0, 1, "rsi_oversold_skip")
  ELSE IF in.fast > in.slow /\ ~(LongLo <= in.rsi /\ in.rsi <= LongHi)
    THEN Signal("NONE", 0, 1, "rsi_not_in_long_zone")
  ELSE IF in.fast < in.slow /\ ~(ShortLo <= in.rsi /\ in.rsi <= ShortHi)
    THEN Signal("NONE", 0, 1, "rsi_not_in_short_zone")
  ELSE
    LET lo == IF in.fast > in.slow THEN LongLo ELSE ShortLo
        hi == IF in.fast > in.slow THEN LongHi ELSE ShortHi
        ts == TrendStrength(Abs(in.fast - in.slow), in.price)
        vs == VolStrength(in.atr, in.price)
        rs == RsiScore(in.rsi, lo, hi)
        den == 100 * in.price * (hi - lo)
        num == 45 * ts * (hi - lo) + 35 * rs * in.price + 20 * vs * (hi - lo)
        \* score = max(0.0, min(1.0, score))
        clamped == IF num > den THEN den ELSE IF num < 0 THEN 0 ELSE num
    IN Signal(IF in.fast > in.slow THEN "CALL" ELSE "PUT", clamped, den, "ok")

\* the candles and indicators the strategy is asked about
ScorerInputs ==
  [present: BOOLEAN, price: {0, 4000}, slow: {4000},
   fast: {3990, 3998, 3999, 4000, 4001, 4002, 4010},
   atr: {3, 4, 20},
   rsi: {250, RsiOversold, ShortLo, 449, LongLo, 475, 525, ShortHi, LongHi, 601,
         RsiOverbought, 750}]

InitScorer ==
  /\ InitClient /\ failsLeft = 0 /\ EngineIdle
  /\ InitTimer /\ InitCandles /\ InitRisk /\ SizerIdle /\ InitIndicators /\ InitHtf /\ InitBook
  /\ sigIn \in ScorerInputs
  /\ sigOut = NoSignal

\* strategy.generate(c, ind)
StrategyGenerate ==
  /\ sigOut = NoSignal
  /\ sigOut' = Generate(sigIn)
  /\ UNCHANGED sigIn
  /\ UNCHANGED <<transportVars, engVars, timerVars, candleVars, riskVars, sizerVars, indVars, htfVars, bookVars>>

NextScorer == StrategyGenerate

SpecScorer == InitScorer /\ [][NextScorer]_vars

Up == sigIn.fast > sigIn.slow
Down == sigIn.fast < sigIn.slow

\* the reasons of the gates the input fails, in the order of the claim
FailedGates ==
  LET in == sigIn IN
  IF ~in.present THEN <<"indicators_not_ready">>
  ELSE IF in.price <= 0 THEN <<"invalid_price">>
  ELSE
    SelectSeq(<<"no_trend", "atr_too_low", "ema_spread_too_low", "rsi_overbought_skip",
                "rsi_oversold_skip", "rsi_not_in_long_zone", "rsi_not_in_short_zone">>,
              LAMBDA why:
                \/ why = "no_trend" /\ in.fast = in.slow
                \/ why = "atr_too_low" /\ in.atr * 1000 < in.price
                \/ why = "ema_spread_too_low" /\ Abs(in.fast - in.slow) * 2000 < in.price
                \/ why = "rsi_overbought_skip" /\ Up /\ in.rsi >= 700
                \/ why = "rsi_oversold_skip" /\ Down /\ in.rsi <= 300
                \/ why = "rsi_not_in_long_zone" /\ Up /\ (in.rsi < 450 \/ in.rsi > 600)
                \/ why = "rsi_not_in_short_zone" /\ Down /\ (in.rsi < 400 \/ in.rsi > 550))

\* C28: a signal for an input that fails a gate has side none, score 0 and
\* the reason of the first gate it fails, in the order indicators, price,
\* trend, ATR floor, spread floor, RSI extreme, RSI zone; an uptrend over both
\* floors with the RSI at or over the overbought level gets the overbought
\* skip.
C28_FirstFailingGate ==
  sigOut # NoSignal =>
    /\ FailedGates # <<>> =>
         /\ sigOut.side = "NONE" /\ sigOut.num = 0
         /\ sigOut.reason = Head(FailedGates)
    /\ (/\ sigIn.present /\ sigIn.price > 0 /\ Up
        /\ sigIn.atr * 1000 >= sigIn.price
        /\ (sigIn.fast - sigIn.slow) * 2000 >= sigIn.price
        /\ sigIn.rsi >= 700) => sigOut.reason = "rsi_overbought_skip"

\* an uptrend over both floors with an RSI of 75: overbought, and also
\* outside the long zone
C28_Witness ==
  /\ sigOut.reason = "rsi_overbought_skip" /\ sigIn.rsi = 750
  /\ Len(FailedGates) = 2

\* C29: a signal for an input that passes every gate has the side of the
\* trend, the reason ok and the score 0.45 trend + 0.35 rsi + 0.20 vol, which
\* is over 0 and at most 1; a signal of side none has score 0.
C29_ScoreOfPassingSignal ==
  sigOut # NoSignal =>
    /\ FailedGates = <<>> =>
         LET lo == IF Up THEN 450 ELSE 400
             hi == IF Up THEN 600 ELSE 550
             \* trend and vol strength as numerators over the price, the
             \* rsi score as a numerator over the width of the zone
             ts == Min(sigIn.price, 500 * Abs(sigIn.fast - sigIn.slow))
             vs == Min(sigIn.price, 250 * sigIn.atr)
             rs == (hi - lo) - Abs(2 * sigIn.rsi - (lo + hi))
         IN
         /\ sigOut.reason = "ok"
         /\ sigOut.side = (IF Up THEN "CALL" ELSE "PUT")
         /\ sigOut.num > 0 /\ sigOut.num <= sigOut.den
         /\ sigOut.den = 100 * sigIn.price * (hi - lo)
         /\ sigOut.num = 45 * ts * (hi - lo) + 35 * rs * sigIn.price + 20 * vs * (hi - lo)
    /\ sigOut.reason = "ok" => FailedGates = <<>>
    /\ sigOut.side = "NONE" => sigOut.num = 0

\* an uptrend with the RSI in the middle of the long zone
C29_Witness ==
  /\ sigOut.side = "CALL" /\ sigOut.reason = "ok"
  /\ sigIn.rsi = 525 /\ sigOut.num < sigOut.den

----
\* Part 8: IndicatorEngine.update.  Closes, highs and lows are whole numbers
\* and the smoothed values exact fractions.

RECURSIVE Pow(_, _)
Pow(b, e) == IF e = 0 THEN 1 ELSE b * Pow(b, e - 1)

\* _ema with alpha = 2 / (period + 1): the numerator of the new average over
\* (period + 1)^n, from the old one over (period + 1)^(n-1); n is the old _bars
Ema(prev, value, period, n) ==
  IF n = 0 THEN value
  ELSE 2 * value * Pow(period + 1, n - 1) + (period - 1) * prev

\* Wilder smoothing (prev * (period - 1) + value) / period, as _ema above
\* with the divisor period
Wilder(prev, value, period, n) ==
  IF n = 0 THEN value
  ELSE prev * (period - 1) + value * Pow(period, n - 1)

\* update: the true range of a candle
TrueRange(cd, prev) ==
  IF prev = 0 THEN cd.h - cd.l
  ELSE LET a == cd.h - cd.l
           b == Abs(cd.h - prev)
           c == Abs(cd.l - prev)
       IN IF a >= b /\ a >= c THEN a ELSE IF b >= c THEN b ELSE c

\* faulty variant: an engine without the neutral warm-up value
NeverWarmingUp(n) == FALSE

\* update: self._bars < self.rsi_period
WarmingUp(n) == n < RsiPeriod

\* update: the rsi from the two averages (numerators over one divisor) at
\* bar n: 100 - 100 / (1 + rs) = 100 * gain / (gain + loss)
Rsi(gain, loss, n) ==
  IF WarmingUp(n) THEN [num |-> 50, den |-> 1]
  ELSE IF loss = 0 THEN [num |-> 100, den |-> 1]
  ELSE [num |-> 100 * gain, den |-> gain + loss]

\* the candles fed to the engine: low <= close <= high
Bars == {cd \in [l: Prices, c: Prices, h: Prices]: cd.l <= cd.c /\ cd.c <= cd.h}

\* IndicatorEngine.update(candle)
IndicatorUpdate(cd) ==
  /\ bars < MaxBars
  /\ bars' = bars + 1
  /\ emaFast' = Ema(emaFast, cd.c, EmaFastPeriod, bars)
  /\ emaSlow' = Ema(emaSlow, cd.c, EmaSlowPeriod, bars)
  /\ atrAvg' = Wilder(atrAvg, TrueRange(cd, prevClose), AtrPeriod, bars)
  /\ LET change == IF prevClose = 0 THEN 0 ELSE cd.c - prevClose
         gain == IF change > 0 THEN change ELSE 0
         loss == IF change < 0 THEN 0 - change ELSE 0
     IN /\ avgGain' = Wilder(avgGain, gain, RsiPeriod, bars)
        /\ avgLoss' = Wilder(avgLoss, loss, RsiPeriod, bars)
  /\ rsiOut' = Rsi(avgGain', avgLoss', bars')
  /\ prevClose' = cd.c
  /\ UNCHANGED <<transportVars, engVars, timerVars, candleVars, riskVars, sizerVars,
                 scorerVars, htfVars, bookVars>>

NextIndicators == \E cd \in Bars: IndicatorUpdate(cd)

InitIndicatorEngine == InitClient /\ failsLeft = 0 /\ EngineIdle /\ RestIdle

SpecIndicators == InitIndicatorEngine /\ [][NextIndicators]_vars

\* C30: the rsi returned by an update is between 0 and 100, and it is 50
\* while the number of bars is under the rsi period.
C30_RsiInRange ==
  bars > 0 =>
    /\ rsiOut.den > 0
    /\ 0 <= rsiOut.num /\ rsiOut.num <= 100 * rsiOut.den
    /\ bars < RsiPeriod => rsiOut.num = 50 * rsiOut.den

\* past the warm-up, with gains and losses behind it, the rsi is strictly
\* between 50 and 100
C30_Witness ==
  /\ bars >= RsiPeriod /\ avgGain > 0 /\ avgLoss > 0
  /\ rsiOut.num > 50 * rsiOut.den /\ rsiOut.num < 100 * rsiOut.den

----
\* Further claims about the transport client.

\* C31 (as claimed): the event is never set while the current socket is
\* closed, and no connection attempt goes on past authorization with a reader
\* task that has ended on a closed connection.
C31_CloseEndsConnected ==
  /\ connected => (ws # 0 /\ sockOpen[ws])
  /\ \A r \in Runners:
       rpc[r] \in {"resub", "running"} => reader[rconn[r]] # "returned"

\* C33 (as claimed): from the return of stop() on, and as long as start() is
\* not called, the event is clear, self._ws is None, no request is pending,
\* no reader or heartbeat task is running and no runner task is alive; no
\* socket is opened, no correlation id is taken and no frame goes out.
C33_StopIsFinal ==
  [][/\ stopEvt' =>
          /\ ~connected' /\ ws' = 0
          /\ futMap' = {}
          /\ \A i \in Ids: futState'[i] # "pending"
          /\ \A t \in Socks: reader'[t] # "running" /\ hb'[t] # "running"
          /\ \A r \in Runners: ~Alive(r)'
          /\ \A s \in Socks: ~sockOpen'[s]
     /\ (stopEvt /\ stopEvt') =>
          nconn' = nconn /\ sentOn' = sentOn /\ reqId' = reqId]_vars

\* the correlation ids of the requests some task is suspended on
Outstanding ==
  {creq[c] : c \in {c \in Callers: cpc[c] = "wait_resp"}}
    \cup {rreq[r] : r \in {r \in Runners: rpc[r] \in {"authorizing", "resub"}}}

\* C34: a future gets a result only in the step in which the response that
\* echoes its correlation id is read, and no other future gets a result in
\* that step; a response to a pending request gives its future the result,
\* whatever was sent before or after it; a correlation id is taken once, as
\* the successor of the last one; and no two suspended tasks wait for the
\* same id.
C34_ResolvedByCorrelationId ==
  [][/\ \A i \in Ids:
          (futState[i] = "pending" /\ futState'[i] = "result") =>
            /\ answer[i] = "none" /\ answer'[i] # "none"
            /\ i \notin futMap'
            /\ \A j \in Ids \ {i}: futState'[j] = "result" => futState[j] = "result"
     /\ \A i \in Ids:
          (answer[i] = "none" /\ answer'[i] # "none"
             /\ i \in futMap /\ futState[i] = "pending") => futState'[i] = "result"
     /\ reqId' >= reqId
     /\ \A i \in Ids:
          (futState[i] = "none" /\ futState'[i] # "none") => i = reqId' /\ i = reqId + 1
     /\ \A c, d \in Callers:
          (c # d /\ cpc'[c] = "wait_resp" /\ cpc'[d] = "wait_resp") => creq'[c] # creq'[d]
     /\ \A c \in Callers, r \in Runners:
          (cpc'[c] = "wait_resp" /\ rpc'[r] \in {"authorizing", "resub"}) =>
            creq'[c] # rreq'[r]]_vars

\* two requests were outstanding and the one sent later was answered first:
\* its caller has returned while the earlier one is still pending
C34_Witness ==
  \E c, d \in Callers:
    /\ creq[c] # 0 /\ creq[c] < creq[d]
    /\ cpc[c] = "wait_resp" /\ futState[creq[c]] = "pending" /\ creq[c] \in Outstanding
    /\ cpc[d] = "returned" /\ futState[creq[d]] = "result"

\* the heartbeat task the runner r handed to asyncio.wait has raised
HeartbeatFailed(r) ==
  rpc[r] = "running" /\ rwaitH[r] # 0 /\ hb[rwaitH[r]] = "raised"

\* the reader task the runner r handed to asyncio.wait has raised
ReaderFailed(r) ==
  rpc[r] = "running" /\ rwaitR[r] # 0 /\ reader[rwaitR[r]] = "raised"

\* the runner r leaves its attempt for the backoff sleep: the event is clear,
\* the socket closed, the map empty, every suspended caller released with
\* the disconnected error, and the sleep is computed from the runner's backoff
FailurePath(r) ==
  /\ rpc'[r] = "sleeping"
  /\ ~connected' /\ ~sockOpen'[rconn[r]]
  /\ futMap' = {}
  /\ \A i \in Ids: futState'[i] # "pending"
  /\ \A c \in Callers:
       cpc[c] = "wait_resp" => cpc'[c] = "raised" /\ cerr'[c] = "disconnected"
  /\ sleepBase'[r] = backoff[r] /\ backoff'[r] = backoff[r]

\* C35: once the heartbeat task has raised, the wait of the runner can only
\* end by the failure path, the one it also takes when the reader task has
\* raised (or by stop()); until then the attempt does not get any further.
C35_HeartbeatFailureIsConnectionFailure ==
  [][\A r \in Runners:
       (HeartbeatFailed(r) \/ ReaderFailed(r)) =>
         \/ rpc'[r] = rpc[r] /\ rconn'[r] = rconn[r]
         \/ FailurePath(r)
         \/ stopEvt' /\ rpc'[r] = "done" /\ ~connected']_vars

\* a ping got no pong in time while Connected: the heartbeat task has raised
\* with the socket still open and a request of another task pending
C35_Witness ==
  \E r \in Runners, c \in Callers:
    /\ HeartbeatFailed(r) /\ ~ReaderFailed(r)
    /\ connected /\ sockOpen[rconn[r]] /\ ws = rconn[r]
    /\ cpc[c] = "wait_resp" /\ futState[creq[c]] = "pending"

\* C39 (as claimed): every name that has an id in the subscription-id map is
\* a key of the subscriptions.
C39_IdsOnlyForSubscribed ==
  \A n \in Names: subIds[n] # 0 => n \in Keys(subscriptions)

----
\* Part 9: HigherTimeframeTrend (services/market/higher_tf_trend.py).

\* deque(maxlen = self._n * 3)
BufferMax == HtfBlocks * 3

\* deque.append on a bounded deque: the oldest element goes when it is full
PushMax(buf, cd) ==
  IF Len(buf) >= BufferMax THEN Append(Tail(buf), cd) ELSE Append(buf, cd)

\* faulty variant: the chunk taken from the old end of the buffer
FirstN(seq, n) == SubSeq(seq, 1, n)

\* add_1m_candle: chunk = list(self._buffer)[-self._n:]
LastN(seq, n) == SubSeq(seq, Len(seq) - n + 1, Len(seq))

MaxOf(S) == CHOOSE x \in S: \A y \in S: y <= x
MinOf(S) == CHOOSE x \in S: \A y \in S: x <= y

\* add_1m_candle: the _AggCandle of a chunk
Aggregate(chunk) ==
  [o |-> chunk[1].o,
   h |-> MaxOf({chunk[k].h : k \in 1..Len(chunk)}),
   l |-> MinOf({chunk[k].l : k \in 1..Len(chunk)}),
   c |-> chunk[Len(chunk)].c]

\* get_trend
GetTrend(last, prev) ==
  IF last = NoAgg \/ prev = NoAgg THEN "neutral"
  ELSE IF last.c > prev.c THEN "bullish"
  ELSE IF last.c < prev.c THEN "bearish"
  ELSE "neutral"

\* is_aligned(signal_side, allow_neutral)
IsAligned(last, prev, side, neutral) ==
  LET trend == GetTrend(last, prev) IN
  IF trend = "neutral" THEN neutral
  ELSE IF side = "CALL" /\ trend = "bullish" THEN TRUE
  ELSE IF side = "PUT" /\ trend = "bearish" THEN TRUE
  ELSE FALSE

\* the closed base candles fed: low <= open, close <= high
HtfCandles == [o: {1}, h: {MaxPrice}, l: {1}, c: Prices]

\* the sides a Signal carries
Sides == {"CALL", "PUT", "NONE"}

\* add_1m_candle(candle)
Add1mCandle(cd) ==
  /\ Len(fed) < MaxHtfBars
  /\ fed' = Append(fed, cd)
  /\ htfBuffer' = PushMax(htfBuffer, cd)
  /\ IF Len(htfBuffer') < HtfBlocks
       THEN UNCHANGED <<lastHtf, prevHtf>>
       ELSE /\ prevHtf' = lastHtf
            /\ lastHtf' = Aggregate(LastN(htfBuffer', HtfBlocks))
  /\ alignOut' = NoAnswer
  /\ UNCHANGED <<transportVars, engVars, timerVars, candleVars, riskVars, sizerVars,
                 scorerVars, indVars, bookVars>>

\* is_aligned(side, allow_neutral)
CallIsAligned(side, neutral) ==
  /\ alignOut' = [side |-> side, neutral |-> neutral,
                  res |-> IsAligned(lastHtf, prevHtf, side, neutral)]
  /\ UNCHANGED <<htfBuffer, lastHtf, prevHtf, fed>>
  /\ UNCHANGED <<transportVars, engVars, timerVars, candleVars, riskVars, sizerVars,
                 scorerVars, indVars, bookVars>>

InitTrend == InitClient /\ failsLeft = 0 /\ EngineIdle /\ RestIdle

NextTrend ==
  \/ \E cd \in HtfCandles: Add1mCandle(cd)
  \/ \E side \in Sides, neutral \in BOOLEAN: CallIsAligned(side, neutral)

SpecTrend == InitTrend /\ [][NextTrend]_vars

\* the close of the synthetic candle made when the k-th base candle closed:
\* the fold of the HtfBlocks base candles up to it
SyntheticClose(k) == Aggregate(SubSeq(fed, k - HtfBlocks + 1, k)).c

\* the synthetic candles made so far
SyntheticCount == IF Len(fed) < HtfBlocks THEN 0 ELSE Len(fed) - HtfBlocks + 1

\* C37: is_aligned returns allow_neutral while fewer than two synthetic
\* candles exist or the last two synthetic closes are equal; otherwise it
\* returns true exactly for CALL with a higher and for PUT with a lower
\* latest synthetic close.
C37_AlignedWithTrend ==
  alignOut # NoAnswer =>
    LET n == Len(fed) IN
    IF SyntheticCount < 2 \/ SyntheticClose(n) = SyntheticClose(n - 1)
      THEN alignOut.res = alignOut.neutral
      ELSE alignOut.res <=>
             \/ alignOut.side = "CALL" /\ SyntheticClose(n) > SyntheticClose(n - 1)
             \/ alignOut.side = "PUT" /\ SyntheticClose(n) < SyntheticClose(n - 1)

\* the buffer has dropped its oldest candle, the trend is bearish, and a PUT
\* was found aligned although neutral is not allowed
C37_Witness ==
  /\ Len(fed) > BufferMax
  /\ alignOut.side = "PUT" /\ ~alignOut.neutral /\ alignOut.res

----
\* Part 10: the risk check of the trade worker, with the snapshot read from
\* the trades table.  Rows are named by their intent; one stake is 10.

\* result.profit of a finished contract: lost, tie, won
Profits == {0 - 10, 0, 10}

\* faulty variant: a tie is no loss
StrictLoss(p) == p < 0

\* get_consecutive_losses_and_last_close: float(pnl) <= 0
IsLoss(p) == p <= 0

\* ... ORDER BY exit_time DESC LIMIT 20: the rows the query returns, newest last
LastRows(order) ==
  IF Len(order) > 20 THEN SubSeq(order, Len(order) - 19, Len(order)) ELSE order

\* get_consecutive_losses_and_last_close: the losses counted from the newest
\* row back to the first row that is a win
RECURSIVE TrailingLosses(_, _)
TrailingLosses(order, pn) ==
  IF order = <<>> THEN 0
  ELSE IF IsLoss(pn[order[Len(order)]])
    THEN 1 + TrailingLosses(SubSeq(order, 1, Len(order) - 1), pn)
    ELSE 0

\* get_trades_today_count: COUNT(*) ... WHERE date(entry_time) = date('now')
TradesToday == Cardinality({i \in Intents: ledger[i] \in {"open", "closed"} /\ today[i]})

\* the RiskSnapshot the worker builds before rf.check
WorkerSnapshot ==
  [peak |-> IF peakEq > metricsBalance THEN peakEq ELSE metricsBalance,
   equity |-> metricsBalance,
   trades |-> TradesToday,
   losses |-> TrailingLosses(LastRows(closeOrder), pnl),
   last |-> IF closeOrder = <<>> THEN "none" ELSE "iso",
   ago |-> sinceClose]

\* trade_worker up to its first await, rf.check included: the check runs
\* when ks.load() went through and the kill switch is off
CheckedTake(pre) ==
  LET snap == WorkerSnapshot
      start == StartAfterReset(dailyStart, snap.equity, dayChanged)
      dec == Decide(snap, start)
  IN /\ TakeIntent(pre, FALSE, dec.allowed)
     /\ IF pre = "ok" /\ ~ksEnabled
          THEN /\ peakEq' = snap.peak
               /\ riskSnap' = snap /\ riskOut' = dec
               /\ dailyStart' = start /\ dayChanged' = FALSE
               /\ nChecks' = nChecks + 1
          ELSE UNCHANGED <<peakEq, riskVars, dayChanged>>
     /\ today' = [i \in Intents |-> today[i] \/ (ledger'[i] = "open" /\ ledger[i] # "open")]
     /\ UNCHANGED <<pnl, closeOrder, sinceClose, metricsBalance>>
     /\ UNCHANGED <<timerVars, candleVars, sizerVars, scorerVars, indVars, htfVars>>

\* the status poll ends, with the profit of the contract when it was sold:
\* metrics.balance is updated before close_trade, which writes pnl and
\* exit_time; the except block deletes the row
ClosedPoll(sold, fin, profit) ==
  /\ PollEnds(sold, fin)
  /\ metricsBalance' = IF sold THEN metricsBalance + profit ELSE metricsBalance
  /\ IF sold /\ fin = "ok"
       THEN /\ pnl' = [pnl EXCEPT ![intent] = profit]
            /\ closeOrder' = Append(closeOrder, intent)
            /\ sinceClose' = 0
       ELSE UNCHANGED <<pnl, closeOrder, sinceClose>>
  /\ UNCHANGED <<today, dayChanged, peakEq>>
  /\ UNCHANGED <<timerVars, candleVars, riskVars, sizerVars, scorerVars, indVars, htfVars>>

\* the ages of the newest exit_time at which the clock is looked at: just
\* closed, half a second before the end of the cooldown, its end, later
CloseAges ==
  {0, CooldownMinutes * 120 - 1, CooldownMinutes * 120, CooldownMinutes * 160}

\* time passes while the worker waits
ClockAdvance ==
  /\ closeOrder # <<>>
  /\ \E a \in CloseAges:
       /\ a > sinceClose
       /\ \A b \in CloseAges: b > sinceClose => a <= b
       /\ sinceClose' = a
  /\ UNCHANGED <<transportVars, engVars, pnl, closeOrder, today, dayChanged,
                 metricsBalance, peakEq>>
  /\ UNCHANGED <<timerVars, candleVars, riskVars, sizerVars, scorerVars, indVars, htfVars>>

\* midnight UTC passes: no row has today's entry date, and the firewall's
\* _day is yesterday
DayChange ==
  /\ ~dayChanged
  /\ dayChanged' = TRUE
  /\ today' = [i \in Intents |-> FALSE]
  /\ UNCHANGED <<transportVars, engVars, pnl, closeOrder, sinceClose, metricsBalance, peakEq>>
  /\ UNCHANGED <<timerVars, candleVars, riskVars, sizerVars, scorerVars, indVars, htfVars>>

\* the balance the account reports: as at the start
Reported == {1000}

\* refresh_balance_every: the balance request answers and metrics.balance is
\* overwritten
BalanceRefreshed(bal) ==
  /\ metricsBalance # bal
  /\ metricsBalance' = bal
  /\ UNCHANGED <<transportVars, engVars, pnl, closeOrder, sinceClose, today, dayChanged,
                 peakEq>>
  /\ UNCHANGED <<timerVars, candleVars, riskVars, sizerVars, scorerVars, indVars, htfVars>>

\* live trading without multipliers, the kill switch off
InitLockout == InitClient /\ failsLeft = 0 /\ InitEngine /\ ~dryRun /\ ~multiplier /\ RestIdle

NextLockout ==
  \/ PutIntent
  \/ \E pre \in {"ok", "raise"}: CheckedTake(pre)
  \/ \E ok \in BOOLEAN: WorkerProposed(ok)
  \/ \E ok \in BOOLEAN: WorkerBought(ok)
  \/ \E sold \in BOOLEAN, fin \in {"ok", "close_raises", "later_raises"}, profit \in Profits:
       ClosedPoll(sold, fin, profit)
  \/ ClockAdvance
  \/ DayChange
  \/ \E bal \in Reported: BalanceRefreshed(bal)

SpecLockout == InitLockout /\ [][NextLockout]_vars

\* the newest MaxConsecutiveLosses rows with an exit_time all have pnl <= 0
Locked ==
  /\ Len(closeOrder) >= MaxConsecutiveLosses
  /\ \A k \in (Len(closeOrder) - MaxConsecutiveLosses + 1)..Len(closeOrder):
       pnl[closeOrder[k]] <= 0

\* C40: once the trailing run of losing closed trades has reached
\* max_consecutive_losses, it stays so: every intent the worker takes is
\* skipped, every check of the firewall answers "not allowed", whatever the
\* time since the last close, and no row, request, contract or close is added.
C40_LockedOutForGood ==
  [][Locked =>
       /\ Locked'
       /\ wpc' = "get" /\ ~tradeInFlight'
       /\ UNCHANGED <<ledger, sent, contract, closeOrder, pnl>>
       /\ nChecks' # nChecks => ~riskOut'.allowed
       /\ Len(tradeQueue') < Len(tradeQueue) =>
            outcome'[tradeQueue[1]] \in {"risk_block_skip_trade", "trade_error"}]_vars

\* two losses in a row; the cooldown is over and a new day has begun, so that
\* the loss run alone decides: the intent taken then was skipped
C40_Witness ==
  /\ Locked /\ sinceClose > CooldownMinutes * 120
  /\ riskSnap.trades = 0 /\ riskSnap.ago = sinceClose
  /\ riskOut = Decision(FALSE, "max_consecutive_losses_reached", 0)
  /\ \E i \in Intents: outcome[i] = "risk_block_skip_trade"

====
